---- MODULE Spec2Model ----
(***************************************************************************)
(* Cart-to-order totals pipeline of the furniture marketplace.             *)
(*                                                                         *)
(* Server: the cart controller (addToCart, updateCart, removeItem,         *)
(* getItems) over the Cart collection and the product catalog.  Every      *)
(* handler is cut at its awaits: one action per database round trip.       *)
(* Client: the zustand cart store (addItem, setQuantity, removeItem,       *)
(* fetchCart) with its optimistic apply / revert protocol.                 *)
(*                                                                         *)
(* Numbers are integers; NaN and "omitted" are sentinel values that every  *)
(* arithmetic helper treats the way JavaScript does.                       *)
(***************************************************************************)
EXTENDS Integers, Sequences, FiniteSets, TLC

(* ------------------------------ bounds -------------------------------- *)

\* Largest quantity a cart line is driven to (guards of the add requests).
MaxQty == 2

\* Number of handler invocations that may be in flight at once in SpecConc.
MaxInFlight == 2

\* Requests issued in one behaviour of SpecConc.
MaxRequests == 4

\* Store calls made in one behaviour of SpecClientConc.
MaxCalls == 3

\* The fee tables are applied to distances up to this many kilometres.
MaxDistance == 201

(* ------------------------- program constants -------------------------- *)

FREE_DELIVERY_THRESHOLD == 50000

NORMAL_SHIPPING_FEE == 1500

\* JavaScript NaN, as produced by Number("abc") or Number(undefined).
NaN == -999999

\* A body field that the request does not carry (undefined).
Omitted == -888888

\* Stand-in for the null Product.findById resolves to for an unknown id.
NoSuchProduct == -777777

\* null where the shipping code expects coordinates or a quote.
Null == -666666

(* ------------------------------ domains ------------------------------- *)

\* An authenticated buyer; req.user absent is NoUser; "s1" is a seller.
Buyers == {"u1"}

\* The accounts with the buyer role: "u2" shops next to "u1" where two
\* owners are followed.
Owners == Buyers \cup {"u2"}

NoUser == "anon"

Sellers == {"s1"}

\* Catalog entries.
Products == {"p1", "p2"}

\* A well-formed ObjectId that resolves to no catalog entry.
UnknownProduct == "p9"

\* A product id that is not a valid ObjectId string.
MalformedId == "bad"

\* productId missing from the request.
NoProduct == ""

ProductInputs == Products \cup {UnknownProduct, MalformedId, NoProduct}

\* Prices a catalog entry can carry: valid ones, a negative one, a non-number.
PriceInputs == {1000, 25000, -1, NaN}

\* The catalog entries whose price is edited while carts hold them.
Repriced == {"p1"}

\* Quantities a request body can carry.
QtyInputs == {NaN, Omitted, -1, 0, 1, 2}

Slots == 1..MaxInFlight

(* ------------------------ JavaScript arithmetic ----------------------- *)

\* Number(x) of a body field: undefined and non-numeric text give NaN.
Number(x) == IF x = Omitted THEN NaN ELSE x

\* x || 0 on a number: NaN and 0 are falsy.
OrZero(x) == IF x = NaN THEN 0 ELSE x

Times(a, b) == IF a = NaN \/ b = NaN THEN NaN ELSE a * b

Plus(a, b) == IF a = NaN \/ b = NaN THEN NaN ELSE a + b

\* a <= b, false when either side is NaN.
Leq(a, b) == a # NaN /\ b # NaN /\ a <= b

(* ----------------------------- documents ------------------------------ *)

NoCart == [id |-> 0, user |-> "none", items |-> <<>>,
           subTotal |-> 0, shipping |-> 0, total |-> 0]

Line(p, q, pr) == [product |-> p, quantity |-> q, price |-> pr]

\* Index of the first line of items for product p, 0 when there is none
\* (Array.prototype.findIndex, 1-based).
FindIndex(items, p) ==
    IF \E i \in 1..Len(items) : items[i].product = p
    THEN CHOOSE i \in 1..Len(items) :
             /\ items[i].product = p
             /\ \A j \in 1..(i - 1) : items[j].product # p
    ELSE 0

HasLine(items, p) == FindIndex(items, p) > 0

\* $pull: every line of product p dropped, order of the others kept.
Pull(items, p) == SelectSeq(items, LAMBDA it : it.product # p)

calculateShipping(subtotal) ==
    IF Leq(subtotal, 0) THEN 0
    ELSE IF Leq(FREE_DELIVERY_THRESHOLD, subtotal) THEN 0
    ELSE NORMAL_SHIPPING_FEE

RECURSIVE SumLines(_)
SumLines(items) ==
    IF items = <<>> THEN 0
    ELSE Plus(SumLines(SubSeq(items, 1, Len(items) - 1)),
              Times(items[Len(items)].price, items[Len(items)].quantity))

calculateTotals(items) ==
    LET subTotal == SumLines(items)
        shipping == calculateShipping(subTotal)
    IN  [subTotal |-> subTotal, shipping |-> shipping,
         total |-> Plus(subTotal, shipping)]

WithTotals(cart, t) ==
    [cart EXCEPT !.subTotal = t.subTotal, !.shipping = t.shipping,
                 !.total = t.total]

\* cartItemSchema: quantity a number >= 1, price a number >= 0.
ValidLine(it) ==
    /\ it.quantity # NaN /\ it.quantity >= 1
    /\ it.price # NaN /\ it.price >= 0

\* cartSchema: every line valid, the three totals numbers >= 0.
ValidCart(cart) ==
    /\ \A i \in 1..Len(cart.items) : ValidLine(cart.items[i])
    /\ cart.subTotal # NaN /\ cart.subTotal >= 0
    /\ cart.shipping # NaN /\ cart.shipping >= 0
    /\ cart.total # NaN /\ cart.total >= 0

(* ------------------------------- state -------------------------------- *)

VARIABLES
    catalog,    \* product id -> current catalog price
    carts,      \* the Cart collection, in insertion order
    reqs,       \* slot -> the handler invocation running in it
    issued,     \* number of requests issued so far
    track,      \* history: the successful adds of each (owner, product)
    items,      \* cart store: the local item list
    error,      \* cart store: the last failure, NoError for null
    isLoading,  \* cart store: a fetch is running
    calls,      \* cart store: the store calls made so far, in order
    quote,      \* the getShippingInfo invocation under way
    est,        \* the applications of the fee tables being compared
    screen      \* the cart screen's component state

clientVars == <<items, error, isLoading, calls>>

shipVars == <<quote, est>>

\* What the cart handlers leave alone.
viewVars == <<clientVars, shipVars, screen>>

cartVars == <<catalog, carts, reqs, issued, track>>

vars == <<catalog, carts, reqs, issued, track, items, error, isLoading, calls,
          quote, est, screen>>

\* Cart.findOne({user}): the first document of the owner, NoCart when none.
FindOne(db, u) ==
    IF \E i \in 1..Len(db) : db[i].user = u
    THEN db[CHOOSE i \in 1..Len(db) :
                /\ db[i].user = u
                /\ \A j \in 1..(i - 1) : db[j].user # u]
    ELSE NoCart

\* Cart.findOne({user, "items.product": p}).
FindOneWithProduct(db, u, p) ==
    IF \E i \in 1..Len(db) : db[i].user = u /\ HasLine(db[i].items, p)
    THEN db[CHOOSE i \in 1..Len(db) :
                /\ db[i].user = u /\ HasLine(db[i].items, p)
                /\ \A j \in 1..(i - 1) :
                       ~(db[j].user = u /\ HasLine(db[j].items, p))]
    ELSE NoCart

CartsOf(db, u) == {i \in 1..Len(db) : db[i].user = u}

\* A handler invocation: the request (op, user, product, qty, body as
\* sent, client call), where the handler stands (pc, kind of pending save,
\* stale copy), its local values (price read, cart loaded, before,
\* populated), the response status, had: whether the owner had a cart
\* when the request arrived, and claimed: a userId field the body carries.
Idle == [op |-> "idle", user |-> "none", product |-> "none", qty |-> 0,
         pc |-> "idle", status |-> 0, price |-> 0, cart |-> NoCart,
         kind |-> "none", stale |-> FALSE, before |-> NoCart, client |-> 0,
         populated |-> <<>>, body |-> 0, had |-> FALSE,
         claimed |-> "none"]

NoError == [op |-> "none", status |-> 0]

NoTrack == [n |-> 0, added |-> 0, price |-> 0, pure |-> FALSE]

FreshTrack == [n |-> 0, added |-> 0, price |-> 0, pure |-> TRUE]

\* null where coordinates are expected.
NoCoords == [latitude |-> Null, longitude |-> Null]

\* null where a quote is expected.
NoQuote == [distance |-> Null, fee |-> Null]

\* A getShippingInfo invocation: its arguments, where it stands, the
\* coordinates it holds, the cities it has geocoded so far with the
\* response to each and what geocodeCity returned for it, and what it
\* returned.
IdleQuote ==
    [pc |-> "idle", sellerCity |-> "none", buyerCity |-> "none",
     sellerLat |-> Omitted, sellerLon |-> Omitted,
     sellerCoords |-> NoCoords, buyerCoords |-> NoCoords,
     lookups |-> <<>>, responses |-> <<>>, found |-> <<>>,
     result |-> NoQuote]

\* No shipping pass under way, none finished.
NoPass ==
    [pc |-> "idle", list |-> <<>>, at |-> 0, totalShipping |-> 0,
     sent |-> <<>>, fees |-> <<>>, outcome |-> "none"]

\* No quantity button pressed whose store call is still pending.
NoPress == [id |-> "", nextQty |-> 0]

\* The cart screen as mounted: useState(0), useState(false); made counts
\* the store calls made while it is followed, quotedFor keeps the product
\* ids of the lines the shipping cost was last summed over.
IdleScreen ==
    [shippingCost |-> 0, isCalculatingShipping |-> FALSE, pass |-> NoPass,
     press |-> NoPress, made |-> 0, quotedFor |-> <<>>]

Init ==
    /\ catalog = [p \in Products |-> 1000]
    /\ carts = <<>>
    /\ reqs = [s \in Slots |-> Idle]
    /\ issued = 0
    /\ track = [u \in Buyers |-> [p \in Products |-> FreshTrack]]
    /\ items = <<>>
    /\ error = NoError
    /\ isLoading = FALSE
    /\ calls = <<>>
    /\ quote = IdleQuote
    /\ est = <<>>
    /\ screen = IdleScreen

(* --------------------------- request intake --------------------------- *)

\* What a request body can carry as userId: nothing, or the id of a buyer
\* who is not the caller.
BodyUserIds(u) == {"none"} \cup (Buyers \ {u})

\* Mutant: a userId in the body takes precedence over the credential.
userId_FromBody(r) == IF r.claimed # "none" THEN r.claimed ELSE r.user

\* const userId = req.user?.id: the owner every handler works for.
userId(r) == r.user

\* Sequential intake: a handler starts only when no other one is running.
OneAtATime(s) ==
    /\ s = 1
    /\ \A t \in Slots : reqs[t] = Idle
    /\ UNCHANGED issued

\* Concurrent intake: any free slot (the lowest one), MaxRequests in all.
Overlapping(s) ==
    /\ reqs[s] = Idle
    /\ \A t \in Slots : t < s => reqs[t] # Idle
    /\ issued < MaxRequests
    /\ issued' = issued + 1

Intake(s, conc) == IF conc THEN Overlapping(s) ELSE OneAtATime(s)

\* The handler in slot s answers with status st and body cart c.
Respond(s, st, c) ==
    reqs' = [reqs EXCEPT ![s] = [@ EXCEPT !.pc = "done", !.status = st,
                                          !.cart = c, !.kind = "none",
                                          !.stale = FALSE]]

\* The database call the handler in slot s awaits rejects (the store is
\* unreachable, a write fails): the catch block answers 500.
Fault(s) ==
    reqs' = [reqs EXCEPT ![s] = [@ EXCEPT !.pc = "done", !.status = 500,
                                          !.cart = NoCart, !.kind = "fault",
                                          !.stale = FALSE]]

\* Quantity of the owner's line for product p in the cart findOne returns.
LineQty(db, u, p) ==
    LET c == FindOne(db, u)
        i == FindIndex(c.items, p)
    IN  IF i = 0 THEN 0 ELSE c.items[i].quantity

(* ----------------------------- addToCart ------------------------------ *)

\* const {quantity = 1} = req.body; const qty = Number(quantity).
AddQty(quantity) == Number(IF quantity = Omitted THEN 1 ELSE quantity)

\* Mutant: a quantity of 0 passes the check.
BadQty_ZeroPasses(qty) == qty = NaN \/ qty < 0

\* isNaN(qty) || qty <= 0.
BadQty(qty) == qty = NaN \/ qty <= 0

\* addToCart up to its first await: authentication, productId, quantity
\* (default 1) and role checks.  body keeps req.body.quantity as sent.
StartAdd(s, u, p, quantity, conc, k) ==
    \E b \in BodyUserIds(u) :
    LET qty == AddQty(quantity)
        r   == [Idle EXCEPT !.op = "add", !.user = u, !.claimed = b,
                            !.product = p,
                            !.qty = qty, !.client = k, !.body = quantity,
                            !.had = FindOne(carts, u) # NoCart]
    IN  /\ Intake(s, conc)
        /\ (u \in Owners /\ p \in Products /\ qty # NaN /\ qty > 0)
              => LineQty(carts, u, p) + qty <= MaxQty
        /\ reqs' = [reqs EXCEPT ![s] =
              IF u = NoUser THEN [r EXCEPT !.pc = "done", !.status = 401]
              ELSE IF p = NoProduct
                   THEN [r EXCEPT !.pc = "done", !.status = 400]
              ELSE IF BadQty(qty)
                   THEN [r EXCEPT !.pc = "done", !.status = 400]
              ELSE IF u \notin Owners
                   THEN [r EXCEPT !.pc = "done", !.status = 403]
              ELSE [r EXCEPT !.pc = "findProduct"]]
        /\ UNCHANGED <<catalog, carts, track, shipVars>>

\* Mutant: an id without a catalog entry resolves to a product priced 0.
findById_Placeholder(cat, p) ==
    IF p \in Products /\ cat[p] # NoSuchProduct THEN cat[p] ELSE 0

\* Product.findById(productId) for a well-formed id: the price of the
\* product document, NoSuchProduct for null (an id the catalog never held
\* or holds no more).
findById(cat, p) == IF p \in Products THEN cat[p] ELSE NoSuchProduct

\* await Product.findById(productId), then the price validation.
AddFindProduct(s) ==
    LET r       == reqs[s]
        product == findById(catalog, r.product)
    IN  /\ r.op = "add" /\ r.pc = "findProduct"
        /\ \E fault \in BOOLEAN :
              IF fault THEN Fault(s)
              ELSE IF r.product = MalformedId THEN Respond(s, 500, NoCart)
              ELSE IF product = NoSuchProduct
                   THEN Respond(s, 400, NoCart)
              ELSE IF product = NaN
                   THEN reqs' = [reqs EXCEPT ![s] =
                           [r EXCEPT !.pc = "done", !.status = 400,
                                     !.price = product]]
              ELSE reqs' = [reqs EXCEPT ![s] =
                       [r EXCEPT !.pc = "findCart", !.price = product]]
        /\ UNCHANGED <<catalog, carts, issued, track, viewVars>>

\* Branch "no cart yet": a new cart document with the one line.
NewCart(u, p, qty, price) ==
    LET itemData == Line(p, qty, price)
    IN  WithTotals([NoCart EXCEPT !.user = u, !.items = <<itemData>>],
                   calculateTotals(<<itemData>>))

\* Mutant: the line's quantity is replaced by the request's, not summed.
AddExistingLine_Overwrite(cart, idx, qty, price) ==
    [cart EXCEPT !.items[idx].quantity = qty]

\* Mutant: the line's price is re-read from the catalog on every add.
AddExistingLine_Resync(cart, idx, qty, price) ==
    [cart EXCEPT !.items[idx].quantity = OrZero(@) + qty,
                 !.items[idx].price = price]

\* Branch "line exists": its quantity grows, nothing else of it changes.
AddExistingLine(cart, idx, qty, price) ==
    [cart EXCEPT !.items[idx].quantity = OrZero(@) + qty]

\* Branch "cart without that product": a new line is pushed.
AddPushLine(cart, p, qty, price) ==
    [cart EXCEPT !.items = Append(@, Line(p, qty, price))]

\* The totals of the branch "cart exists", from price || 0, quantity || 0.
AddRecompute(cart) ==
    WithTotals(cart, calculateTotals(
        [i \in 1..Len(cart.items) |->
            Line(cart.items[i].product, OrZero(cart.items[i].quantity),
                 OrZero(cart.items[i].price))]))

\* await Cart.findOne({user}), the in-memory change and validateSync().
AddFindCart(s) ==
    LET r    == reqs[s]
        cart == FindOne(carts, userId(r))
        idx  == FindIndex(cart.items, r.product)
    IN  /\ r.op = "add" /\ r.pc = "findCart"
        /\ \E fault \in BOOLEAN :
              IF fault THEN Fault(s)
              ELSE IF cart = NoCart
                   THEN IF r.price < 0 THEN Respond(s, 500, NoCart)
                        ELSE LET c == NewCart(userId(r), r.product, r.qty,
                                                  r.price)
                             IN  IF ~ValidCart(c) THEN Respond(s, 400, NoCart)
                                 ELSE reqs' = [reqs EXCEPT ![s] =
                                         [r EXCEPT !.pc = "save", !.cart = c,
                                                   !.kind = "insert"]]
              ELSE IF idx > 0
                   THEN LET c == AddRecompute(
                                   AddExistingLine(cart, idx, r.qty, r.price))
                        IN  IF ~ValidCart(c) THEN Respond(s, 400, NoCart)
                            ELSE reqs' = [reqs EXCEPT ![s] =
                                    [r EXCEPT !.pc = "save", !.cart = c,
                                              !.kind = "set"]]
              ELSE IF r.price < 0 THEN Respond(s, 500, NoCart)
                   ELSE LET c == AddRecompute(
                                   AddPushLine(cart, r.product, r.qty, r.price))
                        IN  IF ~ValidCart(c) THEN Respond(s, 400, NoCart)
                            ELSE reqs' = [reqs EXCEPT ![s] =
                                    [r EXCEPT !.pc = "save", !.cart = c,
                                              !.kind = "push"]]
        /\ UNCHANGED <<catalog, carts, issued, track, viewVars>>

\* cart.save() of a new document: an insert; the schema holds no unique
\* index on user, so nothing rejects a second document of one owner.
SaveInsert(db, cart) == Append(db, [cart EXCEPT !.id = Len(db) + 1])

\* cart.save() after the whole items array was marked modified: $set of
\* items and totals under the document's version, which it increments.
SaveSetItems(db, cart) == [db EXCEPT ![cart.id] = cart]

\* cart.save() after items.push(): $push of the new line onto the stored
\* array, $set of the totals computed in memory, version incremented.
SavePush(db, cart) ==
    [db EXCEPT ![cart.id] =
        [@ EXCEPT !.items = Append(@, cart.items[Len(cart.items)]),
                  !.subTotal = cart.subTotal, !.shipping = cart.shipping,
                  !.total = cart.total]]

\* The document's version key (__v) is kept as what it decides: a save
\* that increments the version of document id makes stale every copy of
\* that document another handler loaded before and has yet to save.
Outdate(rs, s, id) ==
    [t \in Slots |->
        IF t # s /\ rs[t].pc = "save" /\ rs[t].cart.id = id
        THEN [rs[t] EXCEPT !.stale = TRUE] ELSE rs[t]]

\* await cart.save().
AddSave(s) ==
    LET r == reqs[s]
    IN  /\ r.op = "add" /\ r.pc = "save"
        /\ \E fault \in BOOLEAN :
              IF fault THEN Fault(s) /\ UNCHANGED carts
              ELSE IF r.kind = "insert"
                   THEN /\ carts' = SaveInsert(carts, r.cart)
                        /\ reqs' = [reqs EXCEPT ![s] =
                              [r EXCEPT !.pc = "populate",
                                        !.cart.id = Len(carts) + 1]]
              ELSE IF r.kind = "set" /\ r.stale
                   THEN Respond(s, 500, NoCart) /\ UNCHANGED carts
              ELSE /\ carts' = IF r.kind = "set"
                               THEN SaveSetItems(carts, r.cart)
                               ELSE SavePush(carts, r.cart)
                   /\ reqs' = [Outdate(reqs, s, r.cart.id) EXCEPT ![s] =
                         [r EXCEPT !.pc = "populate"]]
        /\ UNCHANGED <<catalog, issued, track, viewVars>>

\* await cart.populate("items.product"), then the 200 response.
AddPopulate(s) ==
    LET r == reqs[s]
    IN  /\ r.op = "add" /\ r.pc = "populate"
        /\ \E fault \in BOOLEAN :
              IF fault THEN Fault(s)
              ELSE Respond(s, 200, r.cart)
        /\ UNCHANGED <<catalog, carts, issued, track, viewVars>>

(* ----------------------------- updateCart ----------------------------- *)

\* updateCart up to its first await: authentication, productId, and the
\* ObjectId conversions inside the try block.
StartUpdate(s, u, p, quantity, conc, k) ==
    \E b \in BodyUserIds(u) :
    LET r == [Idle EXCEPT !.op = "update", !.user = u, !.claimed = b,
                          !.product = p,
                          !.qty = Number(quantity), !.client = k,
                          !.had = FindOne(carts, u) # NoCart]
    IN  /\ Intake(s, conc)
        /\ reqs' = [reqs EXCEPT ![s] =
              IF u = NoUser THEN [r EXCEPT !.pc = "done", !.status = 401]
              ELSE IF p = NoProduct
                   THEN [r EXCEPT !.pc = "done", !.status = 400]
              ELSE IF p = MalformedId
                   THEN [r EXCEPT !.pc = "done", !.status = 500]
              ELSE [r EXCEPT !.pc = "findCart"]]
        /\ UNCHANGED <<catalog, carts, track, shipVars>>

\* Mutant: the quantity is assigned and the totals are left as loaded.
UpdSetQuantity_StaleTotals(cart, idx, qty) ==
    IF qty = NaN THEN cart ELSE [cart EXCEPT !.items[idx].quantity = qty]

\* item.quantity = Number(quantity) and the recomputed totals.  A NaN does
\* not cast to the schema's Number: the line keeps its value and the
\* document is marked invalid (kind "invalid").
UpdSetQuantity(cart, idx, qty) ==
    IF qty = NaN THEN cart
    ELSE LET c == [cart EXCEPT !.items[idx].quantity = qty]
         IN  WithTotals(c, calculateTotals(c.items))

\* Mutant: updateCart never answers "Cart item not found".
UpdFound_Always(cart, idx) == TRUE

\* The two "Cart item not found" tests: the query matched a document and
\* find() matched a line of it.
UpdFound(cart, idx) == cart # NoCart /\ idx > 0

\* await Cart.findOne({user, "items.product"}) and the in-memory change.
UpdFindCart(s) ==
    LET r    == reqs[s]
        cart == FindOneWithProduct(carts, userId(r), r.product)
        idx  == FindIndex(cart.items, r.product)
    IN  /\ r.op = "update" /\ r.pc = "findCart"
        /\ \E fault \in BOOLEAN :
              IF fault THEN Fault(s)
              ELSE IF ~UpdFound(cart, idx) THEN Respond(s, 404, NoCart)
              ELSE reqs' = [reqs EXCEPT ![s] =
                      [r EXCEPT !.pc = "save",
                                !.cart = UpdSetQuantity(cart, idx, r.qty),
                                !.kind = IF r.qty = NaN THEN "invalid"
                                         ELSE "setqty"]]
        /\ UNCHANGED <<catalog, carts, issued, track, viewVars>>

\* Mutant: the schema carries no minimum for quantity.
UpdValid_NoMinimum(kind, cart) == kind # "invalid"

\* What save() validates before it writes: the casts and the schema rules.
UpdValid(kind, cart) == kind # "invalid" /\ ValidCart(cart)

\* cart.save() after one line's quantity changed: $set of that array
\* position and of the totals, under the document's version.
SaveSetQuantity(db, cart, idx) ==
    [db EXCEPT ![cart.id] =
        [@ EXCEPT !.items[idx].quantity = cart.items[idx].quantity,
                  !.subTotal = cart.subTotal, !.shipping = cart.shipping,
                  !.total = cart.total]]

\* await cart.save(): validation, then the write.
UpdSave(s) ==
    LET r   == reqs[s]
        idx == FindIndex(r.cart.items, r.product)
    IN  /\ r.op = "update" /\ r.pc = "save"
        /\ \E fault \in BOOLEAN :
              IF fault THEN Fault(s) /\ UNCHANGED carts
              ELSE IF ~UpdValid(r.kind, r.cart) \/ r.stale
              THEN Respond(s, 500, NoCart) /\ UNCHANGED carts
              ELSE /\ carts' = SaveSetQuantity(carts, r.cart, idx)
                   /\ reqs' = [reqs EXCEPT ![s] = [r EXCEPT !.pc = "populate"]]
        /\ UNCHANGED <<catalog, issued, track, viewVars>>

\* await cart.populate("items.product"), then the 200 response.
UpdPopulate(s) ==
    LET r == reqs[s]
    IN  /\ r.op = "update" /\ r.pc = "populate"
        /\ \E fault \in BOOLEAN :
              IF fault THEN Fault(s)
              ELSE Respond(s, 200, r.cart)
        /\ UNCHANGED <<catalog, carts, issued, track, viewVars>>

(* ----------------------------- removeItem ----------------------------- *)

\* removeItem up to its first await.
StartRemove(s, u, p, conc, k) ==
    \E b \in BodyUserIds(u) :
    LET r == [Idle EXCEPT !.op = "remove", !.user = u, !.claimed = b,
                          !.product = p,
                          !.client = k, !.had = FindOne(carts, u) # NoCart]
    IN  /\ Intake(s, conc)
        /\ reqs' = [reqs EXCEPT ![s] =
              IF u = NoUser THEN [r EXCEPT !.pc = "done", !.status = 401]
              ELSE IF p = NoProduct
                   THEN [r EXCEPT !.pc = "done", !.status = 400]
              ELSE IF p = MalformedId
                   THEN [r EXCEPT !.pc = "done", !.status = 500]
              ELSE [r EXCEPT !.pc = "pull"]]
        /\ UNCHANGED <<catalog, carts, track, shipVars>>

\* Mutant: the $pull is applied with no owner in the filter.
PullFromStore_EveryCart(db, id, p) ==
    [i \in 1..Len(db) |-> [db[i] EXCEPT !.items = Pull(@, p)]]

\* findOneAndUpdate({user}, {$pull}, {new: true}) as the store applies it:
\* the owner's first document loses the product's lines, nothing else of
\* it is written.
PullFromStore(db, id, p) == [db EXCEPT ![id].items = Pull(@, p)]

\* Mutant: removeItem saves the document without recomputing its totals.
RemRecompute_Skipped(cart) == cart

\* The totals removeItem computes from the document it got back.
RemRecompute(cart) == WithTotals(cart, calculateTotals(cart.items))

\* await Cart.findOneAndUpdate(...).populate(...), then the totals.
RemPull(s) ==
    LET r     == reqs[s]
        found == FindOne(carts, userId(r))
    IN  /\ r.op = "remove" /\ r.pc = "pull"
        /\ \E fault \in BOOLEAN :
              IF fault THEN Fault(s) /\ UNCHANGED carts
              ELSE IF found = NoCart
                   THEN Respond(s, 404, NoCart) /\ UNCHANGED carts
              ELSE /\ carts' = PullFromStore(carts, found.id, r.product)
                   /\ reqs' = [reqs EXCEPT ![s] =
                         [r EXCEPT !.pc = "save", !.before = found,
                                   !.cart = RemRecompute(carts'[found.id])]]
        /\ UNCHANGED <<catalog, issued, track, viewVars>>

\* cart.save() with only the three totals modified.
SaveTotals(db, cart) ==
    [db EXCEPT ![cart.id] =
        [@ EXCEPT !.subTotal = cart.subTotal, !.shipping = cart.shipping,
                  !.total = cart.total]]

\* await cart.save(), then the 200 response.
RemSave(s) ==
    LET r == reqs[s]
    IN  /\ r.op = "remove" /\ r.pc = "save"
        /\ \E fault \in BOOLEAN :
              IF fault THEN Fault(s) /\ UNCHANGED carts
              ELSE IF ~ValidCart(r.cart)
              THEN Respond(s, 500, NoCart) /\ UNCHANGED carts
              ELSE /\ carts' = SaveTotals(carts, r.cart)
                   /\ Respond(s, 200, r.cart)
        /\ UNCHANGED <<catalog, issued, track, viewVars>>

(* ------------------------------ getItems ------------------------------ *)

StartGet(s, u, conc, k) ==
    \E b \in BodyUserIds(u) :
    LET r == [Idle EXCEPT !.op = "get", !.user = u, !.claimed = b, !.client = k,
                          !.had = FindOne(carts, u) # NoCart]
    IN  /\ Intake(s, conc)
        /\ reqs' = [reqs EXCEPT ![s] =
              IF u = NoUser THEN [r EXCEPT !.pc = "done", !.status = 401]
              ELSE [r EXCEPT !.pc = "find"]]
        /\ UNCHANGED <<catalog, carts, track, shipVars>>

\* Mutant: a cart without lines is returned as it is.
GetBody_EmptyCartReturned(cart) == cart

\* The body getItems answers with: null unless the cart holds a line.
GetBody(cart) == IF cart = NoCart \/ Len(cart.items) = 0 THEN NoCart ELSE cart

\* populate("items.product"): each line of the body carries its product
\* document, of which the model keeps the price the catalog holds now;
\* NoSuchProduct stands for the null a reference resolves to when the
\* catalog holds the product no more.
Populate(cart, cat) ==
    [i \in 1..Len(cart.items) |->
        [cart.items[i] EXCEPT !.price = cat[cart.items[i].product]]]

\* Mutant: a missing cart is answered 404, as removeItem does.
GetStatus_NotFound(cart) == IF cart = NoCart THEN 404 ELSE 200

\* The status getItems answers with once the lookup is back: 200 on both
\* of its paths.
GetStatus(cart) == 200

\* await Cart.findOne({user}).populate("items.product").
GetFind(s) ==
    LET r    == reqs[s]
        body == GetBody(FindOne(carts, userId(r)))
    IN  /\ r.op = "get" /\ r.pc = "find"
        /\ \E fault \in BOOLEAN :
              IF fault THEN Fault(s)
              ELSE reqs' = [reqs EXCEPT ![s] =
                       [@ EXCEPT !.pc = "done",
                                 !.status =
                                     GetStatus(FindOne(carts, userId(r))),
                                 !.cart = body,
                                 !.populated = Populate(body, catalog)]]
        /\ UNCHANGED <<catalog, carts, issued, track, viewVars>>

(* ------------------------- responses, catalog ------------------------- *)

\* No line of product p in any cart document of owner u.
NoLineStored(db, u, p) ==
    \A i \in CartsOf(db, u) : ~HasLine(db[i].items, p)

\* History of (owner, product p) after the response of request r: the sum
\* of the quantities of an unbroken run of successful adds of p and the
\* price the first of them read.  Any other mutation of the owner and any
\* failed add break the run; a remove that leaves no line of its product
\* starts a new one for that product.
Tracked(t, p, r, db, alone) ==
    IF r.op = "get" THEN t
    ELSE IF r.op = "add" /\ r.status = 200
         THEN IF p # r.product THEN t
              ELSE IF t.pure
                   THEN [n |-> t.n + 1, added |-> t.added + r.qty,
                         price |-> IF t.added = 0 THEN r.price ELSE t.price,
                         pure  |-> TRUE]
                   ELSE NoTrack
    ELSE IF r.op = "remove" /\ p = r.product /\ alone
                /\ NoLineStored(db, r.user, p)
         THEN FreshTrack
    ELSE NoTrack

\* The histories once the response of slot s is out.
TrackAfter(s) ==
    LET r     == reqs[s]
        alone == \A t \in Slots : t # s => reqs[t].user # r.user
    IN  IF r.user \in Buyers
        THEN [track EXCEPT ![r.user] =
                 [p \in Products |-> Tracked(@[p], p, r, carts, alone)]]
        ELSE track

\* The response of slot s has been sent: the slot is free again.
Reply(s) ==
    LET r == reqs[s]
    IN  /\ r.pc = "done"
        /\ r.client = 0
        /\ reqs' = [reqs EXCEPT ![s] = Idle]
        /\ track' = TrackAfter(s)
        /\ UNCHANGED <<catalog, carts, issued, viewVars>>

\* The catalog price of a product is edited (product CRUD, out of scope).
ChangePrice(p, price) ==
    /\ catalog[p] # NoSuchProduct
    /\ catalog[p] # price
    /\ catalog' = [catalog EXCEPT ![p] = price]
    /\ UNCHANGED <<carts, reqs, issued, track, viewVars>>

\* A product is deleted from the catalog (product CRUD, out of scope);
\* the cart lines that reference it stay as they are.
DeleteProduct(p) ==
    /\ catalog[p] # NoSuchProduct
    /\ catalog' = [catalog EXCEPT ![p] = NoSuchProduct]
    /\ UNCHANGED <<carts, reqs, issued, track, viewVars>>

(* ---------------------------- cart store ------------------------------ *)

\* A local cart item: the product (id and listed price) and a quantity.
Item(p, q, pr) == [product |-> p, quantity |-> q, price |-> pr]

\* The populated lines whose product document is there: of a line whose
\* product is null the mapped id is "", and filter() drops it.
RECURSIVE WithProductId(_)
WithProductId(list) ==
    IF Len(list) = 0 THEN <<>>
    ELSE IF list[1].price = NoSuchProduct THEN WithProductId(Tail(list))
    ELSE <<list[1]>> \o WithProductId(Tail(list))

\* Mutant: fetched items are appended to what the list already held.
mapServerCartToItems_Merge(list) ==
    items \o [i \in 1..Len(WithProductId(list)) |->
                 Item(WithProductId(list)[i].product,
                      WithProductId(list)[i].quantity,
                      OrZero(WithProductId(list)[i].price))]

\* mapServerCartToItems: one item per populated line that has a product id,
\* price Number(p.price || 0), quantity as sent.
mapServerCartToItems(list) ==
    [i \in 1..Len(WithProductId(list)) |->
        Item(WithProductId(list)[i].product, WithProductId(list)[i].quantity,
             OrZero(WithProductId(list)[i].price))]

\* The optimistic update of addItem.
addItemApply(list, p, qty, pr) ==
    LET idx == FindIndex(list, p)
    IN  IF idx > 0
        THEN [list EXCEPT ![idx].quantity = OrZero(@) + qty]
        ELSE Append(list, Item(p, qty, pr))

\* Mutant: the requested quantity is used as given.
nextQty_Unclamped(qty) == qty

\* Math.max(1, qty).
nextQty(qty) == IF qty < 1 THEN 1 ELSE qty

\* The optimistic update of setQuantity.
setQuantityApply(list, p, qty) ==
    [i \in 1..Len(list) |->
        IF list[i].product = p
        THEN [list[i] EXCEPT !.quantity = nextQty(qty)]
        ELSE list[i]]

\* The optimistic update of removeItem.
removeItemApply(list, p) == Pull(list, p)

\* Mutant: the subtotal the server last stored, not the local sum.
subtotal_ServerReported(list) ==
    IF Len(carts) = 0 THEN 0 ELSE carts[1].subTotal

\* subtotal(): reduce over the list of
\* Number(it.product.price || 0) * (it.quantity || 1), from 0.
RECURSIVE subtotal(_)
subtotal(list) ==
    IF Len(list) = 0 THEN 0
    ELSE subtotal(SubSeq(list, 1, Len(list) - 1))
         + OrZero(list[Len(list)].price)
           * (IF list[Len(list)].quantity \in {0, NaN}
              THEN 1 ELSE list[Len(list)].quantity)

\* Quantity the local list shows for product p.
LocalQty(list, p) ==
    LET idx == FindIndex(list, p)
    IN  IF idx = 0 THEN 0 ELSE list[idx].quantity

\* The store calls on record: those in flight and those that completed
\* since a call was last made with none in flight.
NonePending == \A k \in 1..Len(calls) : calls[k].state # "pending"

NextCall == IF NonePending THEN 1 ELSE Len(calls) + 1

Logged(kind, p, qty) ==
    LET c == [kind |-> kind, product |-> p, qty |-> qty, prev |-> items,
              state |-> "pending", status |-> 0]
    IN  IF NonePending THEN <<c>> ELSE Append(calls, c)

\* addItem(product, qty) up to its await: snapshot, optimistic update, POST.
ClientAdd(s, u, p, qty, conc) ==
    /\ catalog[p] # NoSuchProduct
    /\ LocalQty(items, p) + qty <= MaxQty
    /\ StartAdd(s, u, p, qty, conc, NextCall)
    /\ items' = addItemApply(items, p, qty, catalog[p])
    /\ calls' = Logged("add", p, qty)
    /\ UNCHANGED <<error, isLoading>>

\* setQuantity(productId, qty) up to the PUT it sends.
ClientSetQuantity(s, u, p, qty, conc) ==
    /\ StartUpdate(s, u, p, nextQty(qty), conc, NextCall)
    /\ items' = setQuantityApply(items, p, qty)
    /\ calls' = Logged("update", p, nextQty(qty))
    /\ UNCHANGED <<error, isLoading>>

\* removeItem(productId) up to its await.
ClientRemove(s, u, p, conc) ==
    /\ StartRemove(s, u, p, conc, NextCall)
    /\ items' = removeItemApply(items, p)
    /\ calls' = Logged("remove", p, 0)
    /\ UNCHANGED <<error, isLoading>>

\* fetchCart() up to its await.
ClientFetch(s, u, conc) ==
    /\ StartGet(s, u, conc, NextCall)
    /\ isLoading' = TRUE
    /\ error' = NoError
    /\ calls' = Logged("get", "none", 0)
    /\ UNCHANGED items

\* The response of a store call is lost on the way back or arrives after
\* the 30 s timeout: the promise rejects although the server answered 200.
Drop(s) ==
    /\ reqs[s].pc = "done" /\ reqs[s].client # 0 /\ reqs[s].status = 200
    /\ reqs' = [reqs EXCEPT ![s] = [@ EXCEPT !.status = 0, !.cart = NoCart,
                                             !.populated = <<>>]]
    /\ UNCHANGED <<catalog, carts, issued, track, viewVars>>

\* What the catch block of a mutation sets the item list to (mutated).
Revert_KeepOptimistic(prev, cur) == cur

\* What the catch block of a mutation sets the item list to.
Revert(prev, cur) == prev

\* Mutant: a failed fetch keeps the list it found.
FetchFailedItems_KeepStale(cur) == cur

\* What the catch block of fetchCart sets the item list to.
FetchFailedItems(cur) == <<>>

\* (The add histories in track follow the requests answered by Reply; the
\* store's calls leave them alone.)
\* The promise of the store call behind slot s settles: nothing more on
\* success of a mutation, the catch block on failure; fetchCart replaces the
\* list on success and empties it on failure.
ClientSettle(s) ==
    LET r      == reqs[s]
        k      == r.client
        c      == calls[k]
        failed == r.status # 200
    IN  /\ r.pc = "done" /\ k # 0
        /\ reqs' = [reqs EXCEPT ![s] = Idle]
        /\ calls' = [calls EXCEPT ![k].state = IF failed THEN "failed"
                                                         ELSE "ok",
                                  ![k].status = r.status]
        /\ IF c.kind = "get"
           THEN /\ isLoading' = FALSE
                /\ items' = IF failed THEN FetchFailedItems(items)
                            ELSE mapServerCartToItems(r.populated)
                /\ error' = IF failed
                            THEN [op |-> "get", status |-> r.status]
                            ELSE error
           ELSE /\ items' = IF failed THEN Revert(c.prev, items) ELSE items
                /\ error' = IF failed
                            THEN [op |-> c.kind, status |-> r.status]
                            ELSE error
                /\ UNCHANGED isLoading
        /\ UNCHANGED <<catalog, carts, issued, track, shipVars>>

(* --------------------------- specifications --------------------------- *)

\* The requests issued: an authenticated buyer with every quantity on the
\* catalog's products and with every kind of unusable product id, and one
\* request of each caller who is rejected before the body is looked at.
Rejected == (Sellers \cup {NoUser}) \X {"p1"} \X {1}

WithQuantity ==
    (Buyers \X Products \X QtyInputs)
        \cup (Buyers \X (ProductInputs \ Products) \X {1})
        \cup Rejected

WithProduct == {<<i[1], i[2]>> : i \in WithQuantity}

Callers == {i[1] : i \in WithQuantity}

Steps ==
    \E s \in Slots :
        \/ AddFindProduct(s) \/ AddFindCart(s) \/ AddSave(s) \/ AddPopulate(s)
        \/ UpdFindCart(s) \/ UpdSave(s) \/ UpdPopulate(s)
        \/ RemPull(s) \/ RemSave(s)
        \/ GetFind(s)
        \/ Reply(s)

\* Requests executed one at a time.
Next ==
    \/ \E s \in Slots, i \in WithQuantity :
          /\ \/ StartAdd(s, i[1], i[2], i[3], FALSE, 0)
             \/ StartUpdate(s, i[1], i[2], i[3], FALSE, 0)
          /\ UNCHANGED <<clientVars, screen>>
    \/ \E s \in Slots, i \in WithProduct :
          /\ StartRemove(s, i[1], i[2], FALSE, 0)
          /\ UNCHANGED <<clientVars, screen>>
    \/ \E s \in Slots, u \in Callers :
          StartGet(s, u, FALSE, 0) /\ UNCHANGED <<clientVars, screen>>
    \/ Steps
    \/ \E p \in Repriced, price \in PriceInputs : ChangePrice(p, price)
    \/ \E p \in Repriced : DeleteProduct(p)

Spec == Init /\ [][Next]_vars

\* Requests of one owner overlapping: add, remove and get handlers take
\* their database round trips in any order.
ConcQty == {1, 2}

NextConc ==
    \/ \E s \in Slots, u \in Buyers, p \in Products, q \in ConcQty :
          StartAdd(s, u, p, q, TRUE, 0) /\ UNCHANGED <<clientVars, screen>>
    \/ \E s \in Slots, u \in Buyers, p \in Products :
          StartRemove(s, u, p, TRUE, 0) /\ UNCHANGED <<clientVars, screen>>
    \/ \E s \in Slots, u \in Buyers :
          StartGet(s, u, TRUE, 0) /\ UNCHANGED <<clientVars, screen>>
    \/ \E s \in Slots :
          \/ AddFindProduct(s) \/ AddFindCart(s) \/ AddSave(s)
          \/ AddPopulate(s)
          \/ RemPull(s) \/ RemSave(s)
          \/ GetFind(s)
          \/ Reply(s)

SpecConc == Init /\ [][NextConc]_vars

\* The quantities the store is called with (0 is a decrement below 1).
ClientQty == {1, 2}

ClientSetQty == {0, 1, 2}

\* One shopper using the store, one call at a time: each call's promise
\* settles before the next call is made.
NextClient ==
    \/ \E s \in Slots, u \in Buyers, p \in Products, q \in ClientQty :
          ClientAdd(s, u, p, q, FALSE) /\ UNCHANGED screen
    \/ \E s \in Slots, u \in Buyers, p \in Products, q \in ClientSetQty :
          ClientSetQuantity(s, u, p, q, FALSE) /\ UNCHANGED screen
    \/ \E s \in Slots, u \in Buyers, p \in Products :
          ClientRemove(s, u, p, FALSE) /\ UNCHANGED screen
    \/ \E s \in Slots, u \in Buyers :
          ClientFetch(s, u, FALSE) /\ UNCHANGED screen
    \/ \E s \in Slots :
          \/ AddFindProduct(s) \/ AddFindCart(s) \/ AddSave(s)
          \/ AddPopulate(s)
          \/ UpdFindCart(s) \/ UpdSave(s) \/ UpdPopulate(s)
          \/ RemPull(s) \/ RemSave(s)
          \/ GetFind(s)
          \/ Drop(s)
          \/ ClientSettle(s) /\ UNCHANGED screen
    \/ \E p \in Repriced : DeleteProduct(p)

SpecClient == Init /\ [][NextClient]_vars

\* The shopper's store calls overlapping: a call is made while the promise
\* of an earlier one is pending.
NextClientConc ==
    \/ \E s \in Slots, u \in Buyers, p \in Products :
          /\ issued < MaxCalls /\ ClientAdd(s, u, p, 1, TRUE)
          /\ UNCHANGED screen
    \/ \E s \in Slots, u \in Buyers, p \in Products :
          /\ issued < MaxCalls /\ ClientRemove(s, u, p, TRUE)
          /\ UNCHANGED screen
    \/ \E s \in Slots, u \in Buyers :
          /\ issued < MaxCalls /\ ClientFetch(s, u, TRUE)
          /\ UNCHANGED screen
    \/ \E s \in Slots :
          \/ AddFindProduct(s) \/ AddFindCart(s) \/ AddSave(s)
          \/ AddPopulate(s)
          \/ RemPull(s) \/ RemSave(s)
          \/ GetFind(s)
          \/ Drop(s)
          \/ ClientSettle(s) /\ UNCHANGED screen

SpecClientConc == Init /\ [][NextClientConc]_vars

(* ------------------------ distance and fee tiers ---------------------- *)

\* Distances are in hundredths of a kilometre, coordinates in hundredths
\* of a degree: calculateDistance rounds to two decimals.

\* The distances the fee tables are applied to: every whole kilometre up
\* to MaxDistance and the next hundredth after it.
Distances == {100 * k + e : k \in 0..MaxDistance, e \in {0, 1}}

\* Mutant: bands closed on the lower bound (distance < threshold).
calculateShippingByDistance_OpenBands(distanceKm) ==
    IF distanceKm # NaN /\ distanceKm < 1000 THEN 500
    ELSE IF distanceKm # NaN /\ distanceKm < 2500 THEN 800
    ELSE IF distanceKm # NaN /\ distanceKm < 5000 THEN 1200
    ELSE IF distanceKm # NaN /\ distanceKm < 10000 THEN 1800
    ELSE 2500

\* utils/distanceUtils.ts, the server's table.
calculateShippingByDistance(distanceKm) ==
    IF Leq(distanceKm, 1000) THEN 500
    ELSE IF Leq(distanceKm, 2500) THEN 800
    ELSE IF Leq(distanceKm, 5000) THEN 1200
    ELSE IF Leq(distanceKm, 10000) THEN 1800
    ELSE 2500

\* Mutant: the 51-70 km tier is priced below the 31-50 km tier.
calculateShipping7_Dip(distanceKm) ==
    IF Leq(distanceKm, 1000) THEN 100
    ELSE IF Leq(distanceKm, 3000) THEN 500
    ELSE IF Leq(distanceKm, 5000) THEN 800
    ELSE IF Leq(distanceKm, 7000) THEN 700
    ELSE IF Leq(distanceKm, 10000) THEN 1800
    ELSE IF Leq(distanceKm, 20000) THEN 2500
    ELSE 3000

\* calculateShipping of the client's seven-tier table.
calculateShipping7(distanceKm) ==
    IF Leq(distanceKm, 1000) THEN 100
    ELSE IF Leq(distanceKm, 3000) THEN 500
    ELSE IF Leq(distanceKm, 5000) THEN 800
    ELSE IF Leq(distanceKm, 7000) THEN 1200
    ELSE IF Leq(distanceKm, 10000) THEN 1800
    ELSE IF Leq(distanceKm, 20000) THEN 2500
    ELSE 3000

\* Mutant: the helper carries the seven-tier table.
calculateShippingUtils_SevenTier(distanceKm) == calculateShipping7(distanceKm)

\* calculateShipping of SERVICE/shippingUtils.ts.
calculateShippingUtils(distanceKm) ==
    IF Leq(distanceKm, 1000) THEN 500
    ELSE IF Leq(distanceKm, 2500) THEN 800
    ELSE IF Leq(distanceKm, 5000) THEN 1200
    ELSE IF Leq(distanceKm, 10000) THEN 1800
    ELSE 2500

\* Math.round of a distance in kilometres.
MathRound(distanceKm) == (distanceKm + 50) \div 100

\* getShippingDescription of SERVICE/shippingUtils.ts: the text
\* "<km>km (<band>) - <fee> KES" as its three parts.
getShippingDescription(distanceKm) ==
    IF Leq(distanceKm, 1000)
    THEN [km |-> MathRound(distanceKm), band |-> "Local", fee |-> 500]
    ELSE IF Leq(distanceKm, 2500)
    THEN [km |-> MathRound(distanceKm), band |-> "Regional", fee |-> 800]
    ELSE IF Leq(distanceKm, 5000)
    THEN [km |-> MathRound(distanceKm), band |-> "Regional+", fee |-> 1200]
    ELSE IF Leq(distanceKm, 10000)
    THEN [km |-> MathRound(distanceKm), band |-> "Long Distance",
          fee |-> 1800]
    ELSE [km |-> MathRound(distanceKm), band |-> "Extra Long", fee |-> 2500]

\* The three tables and the description applied to one distance.
Applied(d) ==
    [distanceKm |-> d,
     server |-> calculateShippingByDistance(d),
     utils |-> calculateShippingUtils(d),
     seven |-> calculateShipping7(d),
     text |-> getShippingDescription(d)]

\* The fee functions are applied to a distance; est keeps up to two
\* applications side by side.
Estimate(d) ==
    /\ Len(est) < 2
    /\ est' = Append(est, Applied(d))
    /\ UNCHANGED <<cartVars, clientVars, quote, screen>>

\* The applications kept are dropped.
Forget ==
    /\ Len(est) = 2
    /\ est' = <<>>
    /\ UNCHANGED <<cartVars, clientVars, quote, screen>>

NextFee ==
    \/ \E d \in Distances : Estimate(d)
    \/ Forget

SpecFee == Init /\ [][NextFee]_vars

(* --------------------------- shipping quote --------------------------- *)

\* The places of the model, and the haversine distance of the code
\* (R = 6371, rounded to two decimals) between each two of them.
Places ==
    << [latitude |-> -129, longitude |-> 3682],
       [latitude |-> -127, longitude |-> 3681],
       [latitude |-> -117, longitude |-> 3683],
       [latitude |-> -103, longitude |-> 3707],
       [latitude |-> -152, longitude |-> 3726],
       [latitude |-> -9, longitude |-> 3477],
       [latitude |-> 0, longitude |-> 3682],
       [latitude |-> -129, longitude |-> 0],
       [latitude |-> 0, longitude |-> 0] >>

Haversine ==
    << <<0, 249, 1339, 4010, 5519, 26411, 14344, 409312, 409635>>,
       <<249, 0, 1134, 3934, 5723, 26203, 14122, 409203, 409518>>,
       <<1339, 1134, 0, 3089, 6164, 25862, 13010, 409435, 409708>>,
       <<4010, 3934, 3089, 0, 5844, 27627, 11786, 412122, 412336>>,
       <<5519, 5723, 6164, 5844, 0, 31926, 17595, 414191, 414607>>,
       <<26411, 26203, 25862, 27627, 31926, 0, 22817, 386819, 386626>>,
       <<14344, 14122, 13010, 11786, 17595, 22817, 0, 409635, 409420>>,
       <<409312, 409203, 409435, 412122, 414191, 386819, 409635, 0, 14344>>,
       <<409635, 409518, 409708, 412336, 414607, 386626, 409420, 14344, 0>> >>

PlaceOf(coord) == CHOOSE i \in 1..Len(Places) : Places[i] = coord

\* calculateDistance: NaN as soon as one coordinate is NaN.
calculateDistance(coord1, coord2) ==
    IF NaN \in {coord1.latitude, coord1.longitude,
                coord2.latitude, coord2.longitude}
    THEN NaN
    ELSE Haversine[PlaceOf(coord1)][PlaceOf(coord2)]

\* A field the first result does not have.
Absent == "undefined"

\* parseFloat of a result's lat or lon text.
parseFloat(text) ==
    CASE text = "-1.29" -> -129
      [] text = "-1.27" -> -127
      [] text = "-1.17" -> -117
      [] text = "-1.03" -> -103
      [] text = "-1.52" -> -152
      [] text = "-0.09" -> -9
      [] text = "36.82" -> 3682
      [] text = "36.81" -> 3681
      [] text = "36.83" -> 3683
      [] text = "37.07" -> 3707
      [] text = "37.26" -> 3726
      [] text = "34.77" -> 3477
      [] OTHER -> NaN

\* First results the lookup service answers with: six towns, a result
\* without lat and lon, and a result whose lon is not a number.
FirstResults ==
    {[lat |-> "-1.29", lon |-> "36.82"], [lat |-> "-1.27", lon |-> "36.81"],
     [lat |-> "-1.17", lon |-> "36.83"], [lat |-> "-1.03", lon |-> "37.07"],
     [lat |-> "-1.52", lon |-> "37.26"], [lat |-> "-0.09", lon |-> "34.77"],
     [lat |-> Absent, lon |-> Absent], [lat |-> "-1.29", lon |-> "east"]}

NoResult == [lat |-> Absent, lon |-> Absent]

\* What axios.get gives geocodeCity: a rejection (timeout, network error,
\* non-2xx status), or a 2xx response whose data is null, an empty array,
\* an object that is not an array, or an array with a first result.
Responses ==
    {[kind |-> k, first |-> NoResult] :
        k \in {"timeout", "network", "status", "null", "empty", "object"}}
        \cup {[kind |-> "results", first |-> f] : f \in FirstResults}

\* geocodeCity given the outcome of its request: null from the catch block
\* (a rejection, or the TypeError of reading lat of undefined), null for no
\* data, otherwise parseFloat of the first result's lat and lon.
geocodeCity(response) ==
    IF response.kind \in {"timeout", "network", "status"} THEN NoCoords
    ELSE IF response.kind \in {"null", "empty"} THEN NoCoords
    ELSE IF response.kind = "object" THEN NoCoords
    ELSE [latitude |-> parseFloat(response.first.lat),
          longitude |-> parseFloat(response.first.lon)]

\* if (sellerLat && sellerLon): undefined, 0 and NaN are falsy.
Truthy(x) == x \notin {Omitted, 0, NaN}

UseHint(sellerLat, sellerLon) == Truthy(sellerLat) /\ Truthy(sellerLon)

\* Mutant: a city that is not found is quoted the first tier at distance 0.
Quoted_DefaultFee(sellerCoords, buyerCoords) ==
    IF sellerCoords = NoCoords \/ buyerCoords = NoCoords
    THEN [distance |-> 0, fee |-> 500]
    ELSE [distance |-> calculateDistance(sellerCoords, buyerCoords),
          fee |-> calculateShippingByDistance(
                      calculateDistance(sellerCoords, buyerCoords))]

\* What getShippingInfo returns once both sides are settled.
Quoted(sellerCoords, buyerCoords) ==
    IF sellerCoords = NoCoords \/ buyerCoords = NoCoords
    THEN NoQuote
    ELSE [distance |-> calculateDistance(sellerCoords, buyerCoords),
          fee |-> calculateShippingByDistance(
                      calculateDistance(sellerCoords, buyerCoords))]

Cities == {"Nairobi", "Kisumu"}

\* Seller coordinates as passed: none, a saved pair, a pair with a zero
\* latitude or longitude, and a latitude without a longitude.
Hints ==
    {<<Omitted, Omitted>>, <<-129, 3682>>, <<0, 3682>>, <<-129, 0>>,
     <<0, 0>>, <<-129, Omitted>>}

\* getShippingInfo up to its first await: the saved coordinates are taken
\* or the seller city is sent to geocodeCity.
StartQuote(sellerCity, buyerCity, sellerLat, sellerLon) ==
    /\ quote.pc = "idle"
    /\ quote' =
          IF UseHint(sellerLat, sellerLon)
          THEN [IdleQuote EXCEPT
                   !.pc = "buyer", !.sellerCity = sellerCity,
                   !.buyerCity = buyerCity, !.sellerLat = sellerLat,
                   !.sellerLon = sellerLon,
                   !.sellerCoords = [latitude |-> sellerLat,
                                     longitude |-> sellerLon],
                   !.lookups = <<buyerCity>>]
          ELSE [IdleQuote EXCEPT
                   !.pc = "seller", !.sellerCity = sellerCity,
                   !.buyerCity = buyerCity, !.sellerLat = sellerLat,
                   !.sellerLon = sellerLon,
                   !.lookups = <<sellerCity>>]
    /\ UNCHANGED <<cartVars, clientVars, est, screen>>

\* await geocodeCity(sellerCity) is back.
GeocodeSeller(response) ==
    LET coords == geocodeCity(response)
    IN  /\ quote.pc = "seller"
        /\ quote' =
              IF coords = NoCoords
              THEN [quote EXCEPT
                       !.pc = "done",
                       !.responses = Append(@, response),
                       !.found = Append(@, coords),
                       !.result = Quoted(coords, NoCoords)]
              ELSE [quote EXCEPT
                       !.pc = "buyer", !.sellerCoords = coords,
                       !.responses = Append(@, response),
                       !.found = Append(@, coords),
                       !.lookups = Append(@, quote.buyerCity)]
        /\ UNCHANGED <<cartVars, clientVars, est, screen>>

\* await geocodeCity(buyerCity) is back: distance, fee and the return.
GeocodeBuyer(response) ==
    LET coords == geocodeCity(response)
    IN  /\ quote.pc = "buyer"
        /\ quote' = [quote EXCEPT
                        !.pc = "done", !.buyerCoords = coords,
                        !.responses = Append(@, response),
                        !.found = Append(@, coords),
                        !.result = Quoted(quote.sellerCoords, coords)]
        /\ UNCHANGED <<cartVars, clientVars, est, screen>>

\* The caller has the result.
QuoteReturn ==
    /\ quote.pc = "done"
    /\ quote' = IdleQuote
    /\ UNCHANGED <<cartVars, clientVars, est, screen>>

NextQuote ==
    \/ \E sc \in Cities, bc \in Cities, h \in Hints :
          StartQuote(sc, bc, h[1], h[2])
    \/ \E response \in Responses : GeocodeSeller(response)
    \/ \E response \in Responses : GeocodeBuyer(response)
    \/ QuoteReturn

SpecQuote == Init /\ [][NextQuote]_vars

(* ------------------------------- claims ------------------------------- *)

Quiet == \A s \in Slots : reqs[s] = Idle

Answered(s, op, st) ==
    reqs[s].op = op /\ reqs[s].pc = "done" /\ reqs[s].status = st

\* Sum over the lines of price * quantity, first line first.
RECURSIVE LinesTotal(_)
LinesTotal(ls) ==
    IF Len(ls) = 0 THEN 0
    ELSE ls[1].price * ls[1].quantity + LinesTotal(Tail(ls))

TotalsMatch(cart) ==
    /\ cart.subTotal = LinesTotal(cart.items)
    /\ cart.shipping = calculateShipping(cart.subTotal)
    /\ cart.total = cart.subTotal + cart.shipping

C2_AddsAccumulate ==
    \A u \in Buyers, p \in Products :
        (Quiet /\ track[u][p].pure /\ track[u][p].added > 0)
        => LET c      == FindOne(carts, u)
               lines  == {i \in 1..Len(c.items) : c.items[i].product = p}
               others == Pull(c.items, p)
           IN  /\ Cardinality(CartsOf(carts, u)) = 1
               /\ Cardinality(lines) = 1
               /\ \A i \in lines :
                     /\ c.items[i].quantity = track[u][p].added
                     /\ c.items[i].price = track[u][p].price
               /\ c.subTotal = track[u][p].price * track[u][p].added
                                  + LinesTotal(others)

\* Two adds of the same product have succeeded in a row, and the catalog
\* price is no longer the one the first add read.
C2_Witness ==
    \E u \in Buyers, p \in Products :
        /\ Quiet /\ track[u][p].pure /\ track[u][p].n >= 2
        /\ track[u][p].price # catalog[p]

\* C8: every line of every persisted cart has a quantity >= 1, whatever
\* quantity add and update requests carried.
C8_QuantityAtLeastOne ==
    \A i \in 1..Len(carts) : \A j \in 1..Len(carts[i].items) :
        carts[i].items[j].quantity # NaN /\ carts[i].items[j].quantity >= 1

\* An update carrying a quantity below 1 or no number has been answered
\* for a product that is a line of the owner's cart.
C8_Witness ==
    \E s \in Slots :
        /\ reqs[s].op = "update" /\ reqs[s].pc = "done"
        /\ reqs[s].kind # "fault"
        /\ (reqs[s].qty = NaN \/ reqs[s].qty <= 0)
        /\ HasLine(FindOne(carts, reqs[s].user).items, reqs[s].product)

\* The line of product p in document i keeps its price over the step.
KeepsPrice(i, p) ==
    LET old == carts[i].items
        new == carts'[i].items
    IN  (HasLine(old, p) /\ HasLine(new, p))
        => new[FindIndex(new, p)].price = old[FindIndex(old, p)].price

\* The save of an add into an existing line: that line's quantity grows by
\* the request's, nothing else of the item list changes.
OnlyQuantityGrows(s) ==
    LET r   == reqs[s]
        old == carts[r.cart.id].items
        new == carts'[r.cart.id].items
        idx == FindIndex(old, r.product)
    IN  (r.op = "add" /\ r.pc = "save" /\ r.kind = "set" /\ carts' # carts)
        => /\ Len(new) = Len(old)
           /\ \A j \in 1..Len(old) :
                 new[j] = IF j = idx
                          THEN [old[j] EXCEPT !.quantity = @ + r.qty]
                          ELSE old[j]
           /\ carts'[r.cart.id].subTotal = LinesTotal(new)

\* C9: a line's price is fixed when the line is inserted: no step changes
\* the price of a line that stays in its cart, whatever the catalog price
\* has become; an add for a product already in the cart only increases
\* that line's quantity, and subTotal is the sum over the captured prices.
C9_PriceCaptured ==
    [][/\ \A i \in 1..Len(carts) : \A p \in Products : KeepsPrice(i, p)
       /\ \A s \in Slots : OnlyQuantityGrows(s)]_vars

\* An add into an existing line has succeeded after the catalog price of
\* its product changed.
C9_Witness ==
    \E s \in Slots :
        LET c == FindOne(carts, reqs[s].user)
            i == FindIndex(c.items, reqs[s].product)
        IN  /\ Answered(s, "add", 200)
            /\ i > 0
            /\ c.items[i].quantity > reqs[s].qty
            /\ c.items[i].price # reqs[s].price

\* C10 (as claimed): a remove by an authenticated owner with a well-formed
\* product id that the store served answers 404 exactly when the owner has
\* no cart, and creates none; on a cart without a line for the product it
\* answers 200 and leaves the items and the three totals as they were.
C10_RemoveAbsentProductIsNoOp ==
    \A s \in Slots :
        LET r == reqs[s]
            c == FindOne(carts, r.user)
        IN  (r.op = "remove" /\ r.pc = "done" /\ r.kind # "fault"
                /\ r.user \in Buyers
                /\ r.product \in Products \cup {UnknownProduct})
            => /\ (r.status = 404) <=> (c = NoCart)
               /\ (c # NoCart /\ ~HasLine(r.before.items, r.product))
                     => (r.status = 200 /\ c = r.before)

\* C5 (as claimed): once overlapping adds of one product by one owner have
\* all answered success, the owner has one cart with one line for the
\* product, its quantity is the sum of the added quantities, and the totals
\* match the lines.
C5_NoAddLost ==
    \A u \in Buyers, p \in Products :
        (Quiet /\ track[u][p].pure /\ track[u][p].added > 0)
        => LET c == FindOne(carts, u)
           IN  /\ Cardinality({i \in 1..Len(c.items) :
                                  c.items[i].product = p}) = 1
               /\ LineQty(carts, u, p) = track[u][p].added
               /\ TotalsMatch(c)

\* C6 (as claimed): no owner ever has two cart documents.
C6_OneCartPerOwner ==
    \A u \in Buyers : Cardinality(CartsOf(carts, u)) <= 1

\* C7 (as claimed): the cart a getCart answers with never pairs an item
\* list that a mutation has changed with the totals of the old list.
C7_ReadsSeeMatchingTotals ==
    \A s \in Slots :
        (Answered(s, "get", 200) /\ reqs[s].cart # NoCart)
        => TotalsMatch(reqs[s].cart)

\* What the optimistic update of store call c makes of the list.
ApplyCall(list, c) ==
    IF c.kind = "add"
    THEN addItemApply(list, c.product, c.qty, catalog[c.product])
    ELSE IF c.kind = "update" THEN setQuantityApply(list, c.product, c.qty)
    ELSE IF c.kind = "remove" THEN removeItemApply(list, c.product)
    ELSE list

Mutations == {"add", "update", "remove"}

\* No other mutation is on record next to store call k.
MadeAlone(k) == \A j \in 1..Len(calls) : j # k => calls[j].kind = "get"

\* C3: when the request of a client mutation (addItem, setQuantity,
\* removeItem) made with no other mutation in flight fails, the step that
\* handles the failure leaves the local list equal to the snapshot taken
\* before the optimistic update and the error field set to the failure.
C3_FailureRestoresSnapshot ==
    [][\A s \in Slots :
          (/\ reqs[s].pc = "done" /\ reqs[s].client # 0
           /\ reqs[s].status # 200
           /\ reqs'[s] = Idle
           /\ calls[reqs[s].client].kind \in Mutations
           /\ MadeAlone(reqs[s].client))
          => /\ items' = calls[reqs[s].client].prev
             /\ error' # NoError
             /\ error' = [op     |-> calls[reqs[s].client].kind,
                          status |-> reqs[s].status]]_vars

\* C3 happens: a mutation made alone on a non-empty list, whose optimistic
\* update changed the list, has failed and the list is the snapshot again.
C3_Witness ==
    /\ Len(calls) = 1
    /\ calls[1].kind \in Mutations /\ calls[1].state = "failed"
    /\ calls[1].prev # <<>>
    /\ ApplyCall(calls[1].prev, calls[1]) # calls[1].prev
    /\ items = calls[1].prev
    /\ error.op = calls[1].kind

\* The list the recorded store calls from the k-th on make of list when
\* only the successful ones are applied, in the order they were made.
RECURSIVE SuccessfulFrom(_, _)
SuccessfulFrom(list, k) ==
    IF k > Len(calls) THEN list
    ELSE SuccessfulFrom(IF calls[k].state = "ok"
                        THEN ApplyCall(list, calls[k]) ELSE list, k + 1)

\* C4: once every store call of a burst of overlapping mutations has
\* completed, the local list is the list from before the burst with the
\* mutations whose requests succeeded applied and the failed ones not.
C4_FailureKeepsNewerState ==
    (/\ calls # <<>> /\ NonePending
     /\ \A k \in 1..Len(calls) : calls[k].kind \in Mutations)
    => items = SuccessfulFrom(calls[1].prev, 1)

\* C11: a cart that has lost its last line still exists and its subTotal,
\* shipping and total are 0 (checked whenever no request is running).
C11_EmptiedCartHasZeroTotals ==
    Quiet =>
        \A i \in 1..Len(carts) :
            carts[i].items = <<>>
            => /\ carts[i].subTotal = 0
               /\ carts[i].shipping = 0
               /\ carts[i].total = 0

\* C12: an update whose lookup finds no cart of the owner, or a cart of
\* the owner without a line for the product, is answered 404 by that very
\* step, and the step creates no cart and changes no persisted cart.
C12_UpdateNotFound ==
    [][\A s \in Slots :
          (/\ reqs[s].op = "update" /\ reqs[s].pc = "findCart"
           /\ reqs'[s] # reqs[s]
           /\ reqs'[s].kind # "fault"
           /\ ~HasLine(FindOne(carts, reqs[s].user).items, reqs[s].product))
          => /\ reqs'[s].pc = "done" /\ reqs'[s].status = 404
             /\ carts' = carts]_vars

\* An update of a catalog product has been answered 404 for an owner whose
\* cart exists and holds a line of another product.
C12_Witness ==
    \E s \in Slots :
        /\ Answered(s, "update", 404)
        /\ reqs[s].product \in Products
        /\ FindOne(carts, reqs[s].user) # NoCart
        /\ FindOne(carts, reqs[s].user).items # <<>>

\* An update has been answered 404 for an owner who has no cart.
C12_WitnessNoCart ==
    \E s \in Slots :
        /\ Answered(s, "update", 404)
        /\ FindOne(carts, reqs[s].user) = NoCart

\* The request in slot s is an update that takes a step other than a
\* rejected database call.
UpdateStep(s, pc) ==
    /\ reqs[s].op = "update" /\ reqs[s].pc = pc
    /\ reqs'[s] # reqs[s]
    /\ reqs'[s].kind # "fault"

\* C13 as stated: every update of a product that is a line of the owner's
\* cart is answered 200, whatever quantity it carries, and the line then
\* holds the requested quantity.
C13_UpdateSucceedsForEveryQuantity ==
    \A s \in Slots :
        (/\ reqs[s].op = "update" /\ reqs[s].pc = "done"
         /\ reqs[s].kind # "fault"
         /\ HasLine(FindOne(carts, reqs[s].user).items, reqs[s].product))
        => /\ reqs[s].status = 200
           /\ LineQty(carts, reqs[s].user, reqs[s].product) = reqs[s].qty

\* C13 amended: the save of an update of a product that is a line of the
\* owner's cart writes the requested quantity into that line, leaves every
\* other line and every other cart as it was and stores the totals of the
\* new item list when the quantity is a number >= 1, and is then answered
\* 200 with that cart; for any other quantity the save is refused by the
\* schema, the answer is 500 and no cart changes.
C13_UpdateSucceedsFromOne ==
    [][\A s \in Slots :
          /\ UpdateStep(s, "save") =>
                LET r   == reqs[s]
                    old == carts[r.cart.id]
                    new == carts'[r.cart.id]
                    idx == FindIndex(old.items, r.product)
                IN  IF r.qty # NaN /\ r.qty >= 1
                    THEN /\ reqs'[s].pc = "populate"
                         /\ idx > 0
                         /\ new.items = [old.items EXCEPT
                                            ![idx].quantity = r.qty]
                         /\ TotalsMatch(new)
                         /\ carts' = [carts EXCEPT ![r.cart.id] = new]
                    ELSE /\ reqs'[s].pc = "done" /\ reqs'[s].status = 500
                         /\ carts' = carts
          /\ UpdateStep(s, "populate") =>
                /\ reqs'[s].pc = "done" /\ reqs'[s].status = 200
                /\ reqs'[s].cart = carts[reqs[s].cart.id]
                /\ carts' = carts]_vars

\* An update to quantity 2 has been answered 200 for a cart of two lines,
\* and the updated line holds 2.
C13_Witness ==
    \E s \in Slots :
        /\ Answered(s, "update", 200)
        /\ reqs[s].qty = 2
        /\ Len(FindOne(carts, reqs[s].user).items) = 2
        /\ LineQty(carts, reqs[s].user, reqs[s].product) = 2

\* A request body's quantity that is no number, or a number <= 0.
NotPositive(b) == b = NaN \/ (b # Omitted /\ b <= 0)

\* C14: an add by an authenticated caller whose quantity is no number or
\* is <= 0 is answered 400 by the handler's first step, before any
\* product or cart lookup, and no cart is created or changed; an add
\* without a quantity goes on with quantity 1 and is not refused for it.
C14_BadQuantityRejected ==
    [][\A s \in Slots :
          (/\ reqs[s] = Idle /\ reqs'[s].op = "add"
           /\ reqs'[s].user # NoUser)
          => /\ carts' = carts
             /\ NotPositive(reqs'[s].body)
                   => /\ reqs'[s].pc = "done" /\ reqs'[s].status = 400
             /\ (reqs'[s].body = Omitted /\ reqs'[s].product # NoProduct)
                   => /\ reqs'[s].qty = 1
                      /\ reqs'[s].status # 400]_vars

\* An add with quantity 0 or -1 has been answered 400 while the owner
\* holds a cart with a line.
C14_Witness ==
    \E s \in Slots :
        /\ Answered(s, "add", 400)
        /\ reqs[s].body \in {0, -1}
        /\ reqs[s].product \in Products
        /\ FindOne(carts, reqs[s].user).items # <<>>

\* An add without a quantity has been answered 200 and created the line
\* with quantity 1.
C14_WitnessOmitted ==
    \E s \in Slots :
        /\ Answered(s, "add", 200)
        /\ reqs[s].body = Omitted
        /\ LineQty(carts, reqs[s].user, reqs[s].product) = 1

\* C15: no step of an add whose productId has no catalog entry (unknown,
\* malformed or empty id) creates or changes a cart, and such an add is
\* never answered 200: it ends right after the product lookup at the latest.
C15_UnknownProductRejected ==
    [][\A s \in Slots :
          (/\ reqs'[s].op = "add" /\ reqs'[s].product \notin Products
           /\ reqs'[s] # reqs[s])
          => /\ carts' = carts
             /\ reqs'[s].pc \in {"findProduct", "done"}
             /\ reqs'[s].status # 200]_vars

\* An add of an unknown product by a buyer who holds a cart with a line
\* has been answered 400 by the product lookup.
C15_Witness ==
    \E s \in Slots :
        /\ Answered(s, "add", 400)
        /\ reqs[s].product = UnknownProduct
        /\ reqs[s].user \in Buyers
        /\ reqs[s].kind # "fault"
        /\ FindOne(carts, reqs[s].user).items # <<>>

\* C16: an add that read a catalog price which is no number or is
\* negative never gets as far as writing the cart and is never answered
\* 200, whichever branch it takes.
C16_BadPriceRejected ==
    \A s \in Slots :
        (/\ reqs[s].op = "add"
         /\ \/ reqs[s].pc \in {"save", "populate"}
            \/ reqs[s].pc = "done" /\ reqs[s].status = 200)
        => reqs[s].price # NaN /\ reqs[s].price >= 0

\* The first add of an owner without a cart, for a catalog product with a
\* valid price, answered with no database call rejected.
FirstAddAnswered(s) ==
    /\ reqs[s].op = "add" /\ reqs[s].pc = "done" /\ reqs[s].kind # "fault"
    /\ reqs[s].user \in Buyers /\ reqs[s].product \in Products
    /\ ~BadQty(reqs[s].qty)
    /\ ~reqs[s].had
    /\ reqs[s].price # NaN /\ reqs[s].price >= 0

\* The first add creates the cart: it is answered 200 and the owner then
\* has one cart with the one line (product, quantity, price read) and the
\* totals of that line.
C17_FirstAddSucceeds ==
    \A s \in Slots :
        FirstAddAnswered(s)
        => LET c == FindOne(carts, reqs[s].user)
           IN  /\ reqs[s].status = 200
               /\ Cardinality(CartsOf(carts, reqs[s].user)) = 1
               /\ c.items = <<Line(reqs[s].product, reqs[s].qty,
                                   reqs[s].price)>>
               /\ TotalsMatch(c)

\* Only a successful add creates a cart: an owner who had no cart when a
\* request arrived has one when it is answered only if the request is an
\* add answered 200.
C17_OnlySuccessfulAddCreates ==
    \A s \in Slots :
        (/\ reqs[s].pc = "done" /\ reqs[s].user \in Buyers
         /\ ~reqs[s].had
         /\ FindOne(carts, reqs[s].user) # NoCart)
        => reqs[s].op = "add" /\ reqs[s].status = 200

\* C17: the first add of a buyer without a cart, for an existing product
\* and a positive quantity, is answered 200 and creates a cart with exactly
\* the one line and its totals; and no cart is created by anything but an
\* add answered 200.
C17_FirstAddCreatesCart ==
    C17_FirstAddSucceeds /\ C17_OnlySuccessfulAddCreates

\* C18: no step of a get changes a cart, and the lookup of a get by an
\* authenticated owner, unless the database call rejects, is answered 200:
\* with a null cart when the owner has no cart, with the owner's cart when
\* it holds at least one line.
C18_GetNeverFailsOnMissingCart ==
    [][\A s \in Slots :
          (reqs'[s].op = "get" /\ reqs'[s] # reqs[s])
          => /\ carts' = carts
             /\ (reqs[s].pc = "find" /\ reqs'[s].kind # "fault")
                   => LET c == FindOne(carts, reqs[s].user)
                      IN  /\ reqs'[s].pc = "done"
                          /\ reqs'[s].status = 200
                          /\ c = NoCart => reqs'[s].cart = NoCart
                          /\ (c # NoCart /\ Len(c.items) > 0)
                                => reqs'[s].cart = c]_vars

\* A get of an owner who has no cart has been answered 200 with a null
\* cart.
C18_Witness ==
    \E s \in Slots :
        /\ Answered(s, "get", 200)
        /\ reqs[s].user \in Buyers
        /\ FindOne(carts, reqs[s].user) = NoCart
        /\ reqs[s].cart = NoCart

\* A get has been answered 200 with the owner's cart of two lines.
C18_WitnessWithLines ==
    \E s \in Slots :
        /\ Answered(s, "get", 200)
        /\ Len(reqs[s].cart.items) = 2
        /\ reqs[s].cart = FindOne(carts, reqs[s].user)

\* The promise of a fetchCart behind slot s settles with the request
\* answered st, no other store call being in flight.
FetchSettles(s) ==
    /\ reqs[s].pc = "done" /\ reqs[s].client # 0
    /\ reqs'[s] = Idle
    /\ calls[reqs[s].client].kind = "get"
    /\ \A j \in 1..Len(calls) :
          j # reqs[s].client => calls[j].state # "pending"

\* The local list, item by item, has the products and quantities of ls.
SameLines(list, ls) ==
    /\ Len(list) = Len(ls)
    /\ \A i \in 1..Len(ls) :
          /\ list[i].product = ls[i].product
          /\ list[i].quantity = ls[i].quantity

\* C19 as stated: when a fetchCart completes successfully with no mutation
\* in flight, the local list has one item per line of the owner's persisted
\* cart, same product, same quantity, same order, whatever it held before
\* (the empty list for no cart and for a cart without lines).
C19_FetchMirrorsEveryLine ==
    [][\A s \in Slots :
          (FetchSettles(s) /\ reqs[s].status = 200)
          => SameLines(items', FindOne(carts, reqs[s].user).items)]_vars

\* C19 amended: ... the local list has one item per line of the owner's
\* persisted cart whose product the catalog still held when the cart was
\* read, same product, same quantity, same order, whatever it held before;
\* the lines whose product is gone from the catalog are left out.
C19_FetchMirrorsResolvedLines ==
    [][\A s \in Slots :
          (FetchSettles(s) /\ reqs[s].status = 200)
          => LET c    == FindOne(carts, reqs[s].user)
                 read == reqs[s].populated
                 live == SelectSeq(read,
                             LAMBDA l : l.price # NoSuchProduct)
             IN  /\ SameLines(read, c.items)
                 /\ SameLines(items', live)]_vars

\* A fetchCart has succeeded on a list that held something else than the
\* cart: the list was not empty and is now the two lines the cart holds.
C19_Witness ==
    /\ Len(calls) = 1 /\ calls[1].kind = "get" /\ calls[1].state = "ok"
    /\ calls[1].prev # <<>>
    /\ items # calls[1].prev
    /\ Len(items) = 2
    /\ \E u \in Buyers : SameLines(items, FindOne(carts, u).items)

\* C20: when the request of a fetchCart fails, the step that handles the
\* failure empties the local list, sets the error field to the failure and
\* isLoading to false.
C20_FetchFailureClears ==
    [][\A s \in Slots :
          (/\ reqs[s].pc = "done" /\ reqs[s].client # 0
           /\ reqs'[s] = Idle
           /\ calls[reqs[s].client].kind = "get"
           /\ reqs[s].status # 200)
          => /\ items' = <<>>
             /\ error' = [op |-> "get", status |-> reqs[s].status]
             /\ error' # NoError
             /\ isLoading' = FALSE]_vars

\* A fetchCart made on a non-empty list has failed: the list is empty,
\* the error is the fetch's and nothing is loading.
C20_Witness ==
    /\ Len(calls) = 1 /\ calls[1].kind = "get" /\ calls[1].state = "failed"
    /\ calls[1].prev # <<>>
    /\ items = <<>>
    /\ error.op = "get"
    /\ ~isLoading

CartsOfOthers(db, u) ==
    {<<i, db[i]>> : i \in {j \in 1..Len(db) : db[j].user # u}}

\* C22: a request that arrives without an authenticated user id is answered
\* 401 at once and neither loads nor changes a cart; and whatever the body
\* names as userId, every step of a handler leaves the carts of all owners
\* other than the authenticated caller as they were and loads no cart but
\* the caller's.
C22_OwnerIsTheAuthenticatedUser ==
    [][\A s \in Slots :
          /\ (reqs[s] = Idle /\ reqs'[s] # Idle /\ reqs'[s].user = NoUser)
             => /\ reqs'[s].pc = "done" /\ reqs'[s].status = 401
                /\ reqs'[s].cart = NoCart /\ reqs'[s].populated = <<>>
                /\ carts' = carts
          /\ (reqs[s] # Idle /\ reqs'[s] # reqs[s])
             => /\ CartsOfOthers(carts', reqs[s].user)
                      = CartsOfOthers(carts, reqs[s].user)
                /\ reqs'[s].cart # NoCart
                      => reqs'[s].cart.user = reqs[s].user]_vars

\* A request without credentials whose body names the buyer u1 has been
\* answered 401 while u1's cart holds a line.
C22_Witness ==
    \E s \in Slots :
        /\ reqs[s].user = NoUser /\ reqs[s].claimed = "u1"
        /\ reqs[s].pc = "done" /\ reqs[s].status = 401
        /\ FindOne(carts, "u1").items # <<>>

\* The seller s1 asked to remove p1 with u1 named in the body: answered
\* 404, since s1 has no cart, and u1's line for p1 is still there.
C22_WitnessForged ==
    \E s \in Slots :
        /\ reqs[s].user = "s1" /\ reqs[s].claimed = "u1"
        /\ Answered(s, "remove", 404)
        /\ HasLine(FindOne(carts, "u1").items, "p1")

\* Some geocodeCity call of the invocation returned not-found.
SomeNotFound ==
    \E i \in 1..Len(quote.found) : quote.found[i] = NoCoords

\* C23: once getShippingInfo has returned, its result is null (no distance,
\* no fee) if the seller lookup or the buyer lookup came back not-found,
\* and otherwise it is exactly the distance calculateDistance gives for the
\* two coordinate pairs with the fee calculateShippingByDistance gives for
\* that distance.
C23_QuoteOrNothing ==
    quote.pc = "done"
    => IF SomeNotFound
       THEN quote.result = NoQuote
       ELSE /\ quote.result.distance
                  = calculateDistance(quote.sellerCoords, quote.buyerCoords)
            /\ quote.result.fee
                  = calculateShippingByDistance(quote.result.distance)
            /\ quote.result # NoQuote

\* The seller city was found and the buyer city was not: nothing quoted.
C23_Witness ==
    /\ quote.pc = "done"
    /\ Len(quote.responses) = 2
    /\ quote.found[1] # NoCoords
    /\ quote.found[2] = NoCoords
    /\ quote.result = NoQuote

\* Both cities were found 40.10 km apart: the quote is 1200.
C23_WitnessQuoted ==
    /\ quote.pc = "done"
    /\ Len(quote.responses) = 2
    /\ quote.result = [distance |-> 4010, fee |-> 1200]

\* C24: whenever getShippingInfo is called with a seller latitude and a
\* seller longitude, whatever their values (0 included), it takes them as
\* the seller coordinates and sends only the buyer city to geocodeCity.
C24_HintSkipsSellerLookup ==
    (/\ quote.pc # "idle"
     /\ quote.sellerLat # Omitted /\ quote.sellerLon # Omitted)
    => /\ quote.pc # "seller"
       /\ quote.lookups = <<quote.buyerCity>>
       /\ quote.sellerCoords = [latitude |-> quote.sellerLat,
                                longitude |-> quote.sellerLon]

\* The first result of a response carries a numeric lat and lon.
Usable(response) ==
    /\ response.kind = "results"
    /\ parseFloat(response.first.lat) # NaN
    /\ parseFloat(response.first.lon) # NaN

\* C25: every geocodeCity call returns coordinates only for a response
\* whose first result carries a valid latitude and longitude, and these
\* are then its coordinates; for zero results, a malformed response, a
\* timeout, a network error or a non-2xx status it returns not-found.
C25_NotFoundUnlessValid ==
    \A i \in 1..Len(quote.found) :
        IF Usable(quote.responses[i])
        THEN quote.found[i]
                 = [latitude |-> parseFloat(quote.responses[i].first.lat),
                    longitude |-> parseFloat(quote.responses[i].first.lon)]
        ELSE quote.found[i] = NoCoords

\* C26: the fee calculateShippingByDistance gives is 500 up to 10 km, 800
\* above 10 and up to 25 km, 1200 above 25 and up to 50 km, 1800 above 50
\* and up to 100 km, and 2500 above 100 km, each band closed on its upper
\* bound.
C26_ServerFeeBands ==
    \A i \in 1..Len(est) :
        LET d == est[i].distanceKm
            f == est[i].server
        IN  /\ d <= 1000 => f = 500
            /\ (1000 < d /\ d <= 2500) => f = 800
            /\ (2500 < d /\ d <= 5000) => f = 1200
            /\ (5000 < d /\ d <= 10000) => f = 1800
            /\ 10000 < d => f = 2500

\* The table applied to 10 km and to 10.01 km: 500, then 800.
C26_Witness ==
    /\ Len(est) = 2
    /\ est[1].distanceKm = 1000 /\ est[1].server = 500
    /\ est[2].distanceKm = 1001 /\ est[2].server = 800

\* The table applied to 100 km and to 100.01 km: 1800, then 2500.
C26_WitnessLastBand ==
    /\ Len(est) = 2
    /\ est[1].distanceKm = 10000 /\ est[1].server = 1800
    /\ est[2].distanceKm = 10001 /\ est[2].server = 2500

\* C27: each of the three fee tables is non-decreasing in the distance: of
\* two distances, the larger one is never charged less, by the server's
\* table, by the client helper's table and by the seven-tier table.
C27_FeesNonDecreasing ==
    \A i, j \in 1..Len(est) :
        est[i].distanceKm <= est[j].distanceKm
        => /\ est[i].server <= est[j].server
           /\ est[i].utils <= est[j].utils
           /\ est[i].seven <= est[j].seven

\* Two distances in different bands of all three tables, the smaller one
\* charged less by each.
C27_Witness ==
    /\ Len(est) = 2
    /\ est[1].distanceKm = 5000 /\ est[2].distanceKm = 5001
    /\ est[1].server < est[2].server
    /\ est[1].utils < est[2].utils
    /\ est[1].seven < est[2].seven

\* C28: for every distance the seven-tier calculateShipping of the client
\* gives the fee calculateShippingByDistance gives on the server.
C28_SevenTierMatchesServer ==
    \A i \in 1..Len(est) : est[i].seven = est[i].server

\* C29: for every distance calculateShipping of SERVICE/shippingUtils
\* gives the fee calculateShippingByDistance gives on the server, and the
\* fee getShippingDescription names in its text is that fee.
C29_HelperMatchesServer ==
    \A i \in 1..Len(est) :
        /\ est[i].utils = est[i].server
        /\ est[i].text.fee = est[i].utils

\* The helper applied to 25.01 km: 1200 as on the server, and the text
\* reads "25km (Regional+) - 1200 KES".
C29_Witness ==
    \E i \in 1..Len(est) :
        /\ est[i].distanceKm = 2501
        /\ est[i].utils = 1200 /\ est[i].server = 1200
        /\ est[i].text = [km |-> 25, band |-> "Regional+", fee |-> 1200]

\* C30: every stored cart with at least one line carries the flat
\* free-delivery shipping of its subTotal: 0 when the subTotal is strictly
\* above FREE_DELIVERY_THRESHOLD and NORMAL_SHIPPING_FEE otherwise, a
\* subTotal equal to the threshold included.
C30_FlatShippingRule ==
    \A i \in 1..Len(carts) :
        Len(carts[i].items) >= 1
        => carts[i].shipping =
              IF carts[i].subTotal > FREE_DELIVERY_THRESHOLD
              THEN 0 ELSE NORMAL_SHIPPING_FEE

\* C31: updateQuantity and removeItem of an authenticated owner with a
\* product id that is present but is not a valid identifier are answered
\* 400, never 500.
C31_InvalidIdIsBadRequest ==
    \A s \in Slots :
        (/\ reqs[s].pc = "done"
         /\ reqs[s].op \in {"update", "remove"}
         /\ reqs[s].user \in Buyers
         /\ reqs[s].product = MalformedId)
        => reqs[s].status = 400

(* ----------------------------- cart screen ---------------------------- *)

\* The cart screen (components/cart/cart.tsx) over the store: the quantity
\* buttons, the effect that resets the shipping cost, and the pass that
\* asks the server for one shipping quote per line.

\* useEffect(() => { setShippingCost(0) }, [items]): runs whenever the
\* store has set a new item list.
ItemsEffect(sc) == [sc EXCEPT !.shippingCost = 0, !.quotedFor = <<>>]

\* handleSetQuantity(id, nextQty) with no onUpdateQuantity prop (no caller
\* passes one): removeItem for a quantity of 0 or less, setQuantity
\* otherwise.
handleSetQuantity(s, u, id, asked) ==
    /\ IF asked <= 0
       THEN ClientRemove(s, u, id, FALSE)
       ELSE ClientSetQuantity(s, u, id, asked, FALSE)
    /\ screen' = [ItemsEffect(screen) EXCEPT
                     !.press = [id |-> id, nextQty |-> asked],
                     !.made = @ + 1]

\* The product ids of the lines of an item list, in order.
ProductIds(list) == [i \in 1..Len(list) |-> list[i].product]

\* What the "-" and "+" buttons of a line ask for.
Buttons(id) == {LocalQty(items, id) - 1, LocalQty(items, id) + 1}

\* The answers of POST /order/calculate-shipping: a fee, a body without a
\* fee, or a failure (the handler is not part of the sources).
QuoteFee == 500

QuoteReplies ==
    {[ok |-> TRUE, fee |-> QuoteFee], [ok |-> TRUE, fee |-> Omitted],
     [ok |-> FALSE, fee |-> Omitted]}

\* response.data?.fee || 0.
FeeOrZero(fee) == IF Truthy(fee) THEN fee ELSE 0

\* The delivery city typed in; the button is disabled while it is blank.
BuyerCities == {"Kisumu"}

\* handleCalculateShipping up to its first await: the loop runs over the
\* item list of the render the handler belongs to.
handleCalculateShipping(city) ==
    /\ ~screen.isCalculatingShipping
    /\ city # ""
    /\ Len(items) > 0
    /\ screen' = [screen EXCEPT
                     !.isCalculatingShipping = TRUE,
                     !.pass = [pc |-> "waiting", list |-> items, at |-> 1,
                               totalShipping |-> 0,
                               sent |-> <<items[1].product>>,
                               fees |-> <<>>, outcome |-> "none"]]
    /\ UNCHANGED <<cartVars, clientVars, shipVars>>

\* Mutant: the catch block applies what was summed so far.
CostAfterFailure_Partial(cost, partial) == partial

\* The shipping cost after the catch block: it only raises an alert.
CostAfterFailure(cost, partial) == cost

\* The awaited quote request settles: the catch block on failure, the next
\* request when lines remain, setShippingCost(totalShipping) after the
\* last; the finally block clears the flag.
QuoteAnswered(reply) ==
    LET ps    == screen.pass
        total == ps.totalShipping + FeeOrZero(reply.fee)
    IN  /\ ps.pc = "waiting"
        /\ screen' =
             IF ~reply.ok
             THEN [screen EXCEPT
                      !.shippingCost =
                          CostAfterFailure(@, ps.totalShipping),
                      !.isCalculatingShipping = FALSE,
                      !.pass = [NoPass EXCEPT !.fees = ps.fees,
                                              !.outcome = "failed"]]
             ELSE IF ps.at < Len(ps.list)
             THEN [screen EXCEPT
                      !.pass = [ps EXCEPT
                                   !.at = @ + 1,
                                   !.totalShipping = total,
                                   !.sent = Append(@,
                                               ps.list[ps.at + 1].product),
                                   !.fees = Append(@, reply.fee)]]
             ELSE [screen EXCEPT
                      !.shippingCost = total,
                      !.quotedFor = ProductIds(ps.list),
                      !.isCalculatingShipping = FALSE,
                      !.pass = [NoPass EXCEPT
                                   !.fees = Append(ps.fees, reply.fee),
                                   !.outcome = "ok"]]
        /\ UNCHANGED <<cartVars, clientVars, shipVars>>

\* A store call made from elsewhere while the screen is followed.
StoreCalled(sc) == [ItemsEffect(sc) EXCEPT !.made = @ + 1]

\* A store promise settles while the screen is mounted: the catch block
\* and fetchCart set a new item list, a successful mutation does not.
ScreenSettle(s) ==
    /\ ClientSettle(s)
    /\ screen' = [(IF calls[reqs[s].client].kind = "get"
                      \/ reqs[s].status # 200
                   THEN ItemsEffect(screen)
                   ELSE screen) EXCEPT !.press = NoPress]

\* One shopper on the cart screen, one store call at a time: products are
\* added from the product pages, quantities changed with the buttons, and
\* a shipping pass runs alongside.
NextScreen ==
    \/ \E s \in Slots, u \in Buyers, p \in Products :
          /\ screen.made < MaxCalls
          /\ ClientAdd(s, u, p, 1, FALSE)
          /\ screen' = StoreCalled(screen)
    \/ \E s \in Slots, u \in Buyers, p \in Products :
          /\ screen.made < MaxCalls
          /\ HasLine(items, p)
          /\ \E asked \in Buttons(p) :
                asked <= MaxQty /\ handleSetQuantity(s, u, p, asked)
    \/ \E s \in Slots, u \in Buyers, p \in Products, q \in ClientSetQty :
          /\ screen.made < MaxCalls
          /\ ClientSetQuantity(s, u, p, q, FALSE)
          /\ screen' = StoreCalled(screen)
    \/ \E city \in BuyerCities : handleCalculateShipping(city)
    \/ \E reply \in QuoteReplies : QuoteAnswered(reply)
    \/ \E s \in Slots :
          \/ AddFindProduct(s) \/ AddFindCart(s) \/ AddSave(s)
          \/ AddPopulate(s)
          \/ UpdFindCart(s) \/ UpdSave(s) \/ UpdPopulate(s)
          \/ RemPull(s) \/ RemSave(s)
          \/ ScreenSettle(s)

SpecScreen == Init /\ [][NextScreen]_vars

C32_WitnessUpdate ==
    /\ screen.press.nextQty = 2
    /\ \E s \in Slots :
           /\ reqs[s].op = "update" /\ reqs[s].client # 0
           /\ reqs[s].qty = 2

\* x === y on JavaScript numbers: NaN equals nothing, itself included.
SameNumber(x, y) == x # NaN /\ y # NaN /\ x = y

\* The coordinates getShippingInfo has passed to calculateDistance.
Located ==
    IF quote.result = NoQuote THEN {}
    ELSE {quote.sellerCoords, quote.buyerCoords}

\* C33: calculateDistance is symmetric and zero on identical points.  For
\* all coordinates a and b that getShippingInfo has passed to it,
\* calculateDistance(a, b) equals calculateDistance(b, a),
\* calculateDistance(a, a) equals 0, and the result is a number of
\* kilometres to two decimals that is never negative.
C33_DistanceSymmetricZeroOnSame ==
    \A a \in Located, b \in Located :
        /\ SameNumber(calculateDistance(a, b), calculateDistance(b, a))
        /\ SameNumber(calculateDistance(a, a), 0)
        /\ calculateDistance(a, b) \in Nat

(* ---------------------- store and catalog prices ---------------------- *)

\* The prices a product edit accepts.
ValidPrices == {x \in PriceInputs : x # NaN /\ x > 0}

\* One shopper using the store, one call at a time, while the seller edits
\* the price of a product.
NextClientPriced ==
    \/ \E s \in Slots, u \in Buyers, p \in Products, q \in ClientQty :
          ClientAdd(s, u, p, q, FALSE) /\ UNCHANGED screen
    \/ \E s \in Slots, u \in Buyers, p \in Products, q \in ClientSetQty :
          ClientSetQuantity(s, u, p, q, FALSE) /\ UNCHANGED screen
    \/ \E s \in Slots, u \in Buyers, p \in Products :
          ClientRemove(s, u, p, FALSE) /\ UNCHANGED screen
    \/ \E s \in Slots, u \in Buyers :
          ClientFetch(s, u, FALSE) /\ UNCHANGED screen
    \/ \E s \in Slots :
          \/ AddFindProduct(s) \/ AddFindCart(s) \/ AddSave(s)
          \/ AddPopulate(s)
          \/ UpdFindCart(s) \/ UpdSave(s) \/ UpdPopulate(s)
          \/ RemPull(s) \/ RemSave(s)
          \/ GetFind(s)
          \/ ClientSettle(s) /\ UNCHANGED screen
    \/ \E p \in Repriced, price \in ValidPrices : ChangePrice(p, price)

SpecClientPriced == Init /\ [][NextClientPriced]_vars

\* The subTotal stored on the owner's cart, 0 when there is none.
StoredSubTotal(u) ==
    IF FindOne(carts, u) = NoCart THEN 0 ELSE FindOne(carts, u).subTotal

\* fetchCart has just succeeded: it is the last store call on record and
\* nothing is in flight.
JustFetched ==
    /\ \A s \in Slots : reqs[s] = Idle
    /\ Len(calls) > 0
    /\ calls[Len(calls)].kind = "get"
    /\ calls[Len(calls)].state = "ok"

\* C34: immediately after a successful fetchCart with no mutation in
\* flight, the store's subtotal() equals the subTotal stored on the
\* owner's server cart, whatever adds, updates, removes and catalog price
\* changes came before.
C34_FetchedSubtotalIsStored ==
    \A u \in Buyers : JustFetched => subtotal(items) = StoredSubTotal(u)

\* The (product id, quantity) lines of the local list and of the owner's
\* stored cart.
LocalLines == {<<items[i].product, items[i].quantity>> : i \in 1..Len(items)}

StoredLines(u) ==
    LET c == FindOne(carts, u)
    IN  {<<c.items[i].product, c.items[i].quantity>> : i \in 1..Len(c.items)}

\* C35: with the store's mutations issued strictly one at a time from a
\* state where the local list equals the server cart, after every
\* completed mutation, whether its request succeeded or failed at any
\* server step, the (product id, quantity) lines of the local list are the
\* lines of the owner's stored cart.
C35_MirrorMatchesAfterEachMutation ==
    \A u \in Buyers :
        (/\ \A s \in Slots : reqs[s] = Idle
         /\ Len(calls) > 0
         /\ \A k \in 1..Len(calls) :
                calls[k].kind # "get" /\ calls[k].state # "pending")
        => LocalLines = StoredLines(u)

\* C36: a shipping cost above 0 shown on the cart screen (with the total
\* and the checkout button that depend on it) was summed over the lines of
\* the item list shown now, also when the list changed while the shipping
\* pass was running.
C36_ShownCostIsForShownItems ==
    (screen.shippingCost > 0 /\ Len(items) > 0)
    => screen.quotedFor = ProductIds(items)

\* The sum the pass forms over the fees returned (fee || 0 each).
RECURSIVE SumFees(_)
SumFees(fees) ==
    IF Len(fees) = 0 THEN 0
    ELSE FeeOrZero(fees[1]) + SumFees(Tail(fees))

C37_WitnessFailed ==
    /\ screen.pass.outcome = "failed"
    /\ screen.pass.fees = <<QuoteFee>>
    /\ screen.shippingCost = 2 * QuoteFee
    /\ ~screen.isCalculatingShipping

(* ----------------------------- two owners ----------------------------- *)

\* No request of owner u is being handled.
NoneInFlightOf(u) == \A s \in Slots : reqs[s].user # u

\* Two buyers using the server at once, MaxCalls requests in all: each
\* has one request at a time, and the handlers of the two take their
\* database round trips in any order.
NextOwners ==
    \/ \E s \in Slots, u \in Owners, p \in Products :
          /\ NoneInFlightOf(u) /\ issued < MaxCalls
          /\ \/ StartAdd(s, u, p, 1, TRUE, 0)
             \/ StartUpdate(s, u, p, MaxQty, TRUE, 0)
             \/ StartRemove(s, u, p, TRUE, 0)
          /\ UNCHANGED <<clientVars, screen>>
    \/ \E s \in Slots, u \in Owners :
          /\ NoneInFlightOf(u) /\ issued < MaxCalls
          /\ StartGet(s, u, TRUE, 0)
          /\ UNCHANGED <<clientVars, screen>>
    \/ Steps

SpecOwners == Init /\ [][NextOwners]_vars

\* C38: a cart operation performed by owner A never changes the items or
\* totals of the cart of any other owner B, in every interleaving of the
\* requests of different owners: a step of a handler leaves every cart
\* document that is not its owner's exactly as it was, in its place.
C38_OtherOwnersCartsUntouched ==
    [][\A s \in Slots :
          (reqs'[s] # reqs[s])
          => LET a == IF reqs[s] = Idle THEN reqs'[s].user ELSE reqs[s].user
             IN  \A b \in Owners \ {a} :
                     /\ FindOne(carts', b) = FindOne(carts, b)
                     /\ {<<i, carts'[i]>> : i \in CartsOf(carts', b)}
                           = {<<i, carts[i]>> : i \in CartsOf(carts, b)}]_vars

\* C38 witness: u2's remove of p1 has been answered 200 while u1 has an
\* add under way, and u1's cart still holds its line for p1.
C38_Witness ==
    /\ \E s \in Slots :
           /\ reqs[s].user = "u2" /\ Answered(s, "remove", 200)
    /\ \E s \in Slots :
           /\ reqs[s].user = "u1" /\ reqs[s].op = "add"
           /\ reqs[s].pc \notin {"idle", "done"}
    /\ HasLine(FindOne(carts, "u1").items, "p1")
    /\ FindOne(carts, "u2") # NoCart

\* The owner's cart exists and holds no line.
Emptied(cart) == cart # NoCart /\ cart.items = <<>>

\* C39: getItems does not distinguish an emptied cart from an absent one.
\* Once its lookup is back, an owner whose cart exists with zero items is
\* answered exactly as an owner who has no cart: 200 with cart null; a
\* removeItem on the emptied cart is still answered 200, and an updateCart
\* on it is answered 404.  (A rejected database call is answered 500.)
C39_EmptiedCartReadsAsAbsent ==
    \A s \in Slots :
        LET r == reqs[s]
            c == FindOne(carts, r.user)
        IN  (r.pc = "done" /\ r.user # NoUser /\ r.kind # "fault")
            => /\ (r.op = "get" /\ (c = NoCart \/ Emptied(c)))
                  => /\ r.status = 200
                     /\ r.cart = NoCart
                     /\ r.populated = <<>>
               /\ (r.op = "remove" /\ Emptied(r.before))
                  => r.status = 200 /\ Emptied(c)
               /\ (r.op = "update" /\ r.product \in Products /\ Emptied(c))
                  => r.status = 404

\* C39 witness: the buyer's cart exists with no line and a get has been
\* answered 200 with cart null.
C39_Witness ==
    \E s \in Slots :
        /\ Answered(s, "get", 200) /\ reqs[s].user \in Buyers
        /\ Emptied(FindOne(carts, reqs[s].user))
        /\ reqs[s].cart = NoCart

\* C39 witness: the same answer for a caller who has never had a cart.
C39_WitnessAbsent ==
    \E s \in Slots :
        /\ Answered(s, "get", 200) /\ reqs[s].user \in Buyers
        /\ FindOne(carts, reqs[s].user) = NoCart
        /\ reqs[s].cart = NoCart

\* C39 witness: a remove on the emptied cart has been answered 200.
C39_WitnessRemove ==
    \E s \in Slots :
        /\ Answered(s, "remove", 200) /\ Emptied(reqs[s].before)

\* C39 witness: an update on the emptied cart has been answered 404.
C39_WitnessUpdate ==
    \E s \in Slots :
        /\ Answered(s, "update", 404) /\ reqs[s].product \in Products
        /\ Emptied(FindOne(carts, reqs[s].user))

====
